---- MODULE Spec2Model ----
(***************************************************************************)
(* Client-side solving-session controller of the SolverForge quickstart    *)
(* web UI (static/webjars/solverforge/js/solverforge-webui.js).            *)
(*                                                                         *)
(* The browser is single threaded: every handler (click, timer tick, AJAX  *)
(* callback) runs to completion, so each handler is one atomic action.     *)
(* The solver service is an open environment: every outstanding request    *)
(* may succeed or fail at any time, in any order, and the content of a     *)
(* successful response is drawn from a bounded set.                        *)
(***************************************************************************)
EXTENDS Bags, FiniteSets, Integers, Sequences, TLC

(***************************************************************************)
(* Bounds of the model.                                                    *)
(***************************************************************************)
\* requests that may be outstanding at the same time
MaxInFlight == 2
\* tasks a schedule may hold after an addTask, with the session controller
MaxTasks == 1
\* tasks a schedule may hold after an addTask, under local edits alone
MaxEditTasks == 2

(***************************************************************************)
(* Null values.  JavaScript null of a string, of a timer id (setInterval   *)
(* returns positive integers) and of an object.                            *)
(***************************************************************************)
NullId == "null"
NullTimer == 0
NoSchedule == [null |-> TRUE]

(***************************************************************************)
(* Data the server can send.                                               *)
(***************************************************************************)
DatasetIds == {"SMALL", "LARGE"}
JobIds == {"job-1", "job-2"}
Statuses == {"SOLVING", "NOT_SOLVING", NullId}

\* the lists GET /demo-data may answer with
DatasetLists == {<< >>, <<"SMALL", "LARGE">>}

ResourceA == [name |-> "A", capacity |-> 60, skills |-> {"x"}]

Task1 == [id |-> "task-1", name |-> "T1", duration |-> 40,
          requiredSkill |-> "x", resource |-> NullId]

\* GET /demo-data/{id}: score null, solverStatus NOT_SOLVING
DemoData(d) ==
    [resources |-> <<ResourceA>>,
     tasks |-> IF d = "SMALL" THEN << >> ELSE <<Task1>>,
     score |-> NullId,
     solverStatus |-> "NOT_SOLVING"]

\* GET /schedules/{jobId}: a solution in progress or a final one
JobSchedule(st) ==
    [resources |-> <<ResourceA>>,
     tasks |-> <<[Task1 EXCEPT !.resource = "A"]>>,
     score |-> "0hard/-40soft",
     solverStatus |-> st]

JobSchedules == {JobSchedule(st) : st \in Statuses}

DatasetSchedules == {DemoData(d) : d \in DatasetIds}

ServerSchedules == JobSchedules \cup DatasetSchedules

(***************************************************************************)
(* State.                                                                  *)
(***************************************************************************)
VARIABLES
    autoRefreshIntervalId,  \* id of the polling interval, or NullTimer
    demoDataId,             \* selected dataset, or NullId
    scheduleId,             \* job handle, or NullId
    loadedSchedule,         \* the Schedule Model, or NoSchedule
    initialized,            \* flag of safeInitialize
    pendingInit,            \* one-shot events that can still call safeInitialize
    dropdown,               \* dataset items of the Data dropdown
    uiSolving,              \* TRUE: Stop button and spinner shown, Solve hidden
    timers,                 \* interval timers alive in the browser
    inflight,               \* bag of requests waiting for their response
    lastEvent,              \* history: the handler that ran last, its input
    sessionSolving,         \* history: Solving entered and not left since
    jobLive,                \* history: a job started since the last selection
    weights,                \* values of the four constraint weight sliders
    scoreAnalysisContent,   \* what the score analysis modal shows
    serverStatus            \* solverStatus of the job on the server, or NullId
                            \* where the server is left open

vars == <<autoRefreshIntervalId, demoDataId, scheduleId, loadedSchedule,
          initialized, pendingInit, dropdown, uiSolving, timers, inflight,
          lastEvent, sessionSolving, jobLive, weights,
          scoreAnalysisContent, serverStatus>>

(***************************************************************************)
(* Requests.  kind: "list" GET /demo-data, "dataset" GET /demo-data/{id},  *)
(* "job" GET /schedules/{id}, "post" POST /schedules, "delete" DELETE      *)
(* /schedules/{id}.  History fields: origin names the handler that issued  *)
(* the request, superseded tells of a POST that a dataset was selected     *)
(* after solve() issued it.  The body of a POST is kept in lastEvent (the  *)
(* server's answers do not depend on it).                                  *)
(***************************************************************************)
Request(kind, target, origin) ==
    [kind |-> kind, target |-> target, origin |-> origin,
     superseded |-> FALSE, early |-> FALSE]

NoRequest == [null |-> TRUE]

\* history record of a handler run: the request it answered, the data it
\* was given, the timer id and whether the Schedule Model held a local edit
\* before it ran, and pre: <<scheduleId, demoDataId>> before a dataset
\* click, the Schedule Model before a resource or task button, the view of
\* the score analysis before analyze() or its failure
Event(op, req, data, prevTimer, prevEdited) ==
    [op |-> op, req |-> req, data |-> data, prevTimer |-> prevTimer,
     prevEdited |-> prevEdited, pre |-> << >>]

Send(bag, req) == bag (+) SetToBag({req})

Receive(bag, req) == bag (-) SetToBag({req})

Issue(bag, req) == IF req = NoRequest THEN bag ELSE Send(bag, req)

\* history: every outstanding POST is superseded by a dataset selection
Supersede(bag) ==
    IF bag = EmptyBag THEN EmptyBag
    ELSE LET mark(r) == [r EXCEPT !.superseded = (r.kind = "post" \/ @)]
             S == {mark(r) : r \in BagToSet(bag)}
         IN  [s \in S |-> IF s.kind = "post"
                          THEN CopiesIn(s, bag)
                               + CopiesIn([s EXCEPT !.superseded = FALSE], bag)
                          ELSE CopiesIn(s, bag)]

CanSend == BagCardinality(inflight) < MaxInFlight

Pending == BagToSet(inflight)

\* the Schedule Model holds a local edit no response has replaced yet
Edited == loadedSchedule # NoSchedule /\ loadedSchedule \notin ServerSchedules

(***************************************************************************)
(* refreshSolvingButtons(solving): shows the controls and starts or stops  *)
(* the polling interval.  Gives the new <<autoRefreshIntervalId, timers,   *)
(* uiSolving>>.                                                            *)
(***************************************************************************)
setInterval(ts) == CHOOSE t \in 1..(Cardinality(ts) + 1) : t \notin ts

refreshSolvingButtonsNoClear(solving, id, ts) ==
    IF solving
    THEN IF id = NullTimer
         THEN <<setInterval(ts), ts \cup {setInterval(ts)}, TRUE>>
         ELSE <<id, ts, TRUE>>
    ELSE <<NullTimer, ts, FALSE>>

refreshSolvingButtonsAlwaysStart(solving, id, ts) ==
    IF solving
    THEN <<setInterval(ts), ts \cup {setInterval(ts)}, TRUE>>
    ELSE IF id # NullTimer
         THEN <<NullTimer, ts \ {id}, FALSE>>
         ELSE <<id, ts, FALSE>>

refreshSolvingButtonsToggle(solving, id, ts) ==
    IF solving
    THEN IF id = NullTimer
         THEN <<setInterval(ts), ts \cup {setInterval(ts)}, TRUE>>
         ELSE <<id, ts, TRUE>>
    ELSE IF id # NullTimer
         THEN <<NullTimer, ts \ {id}, FALSE>>
         ELSE <<setInterval(ts), ts \cup {setInterval(ts)}, FALSE>>

refreshSolvingButtonsNoStart(solving, id, ts) ==
    IF solving
    THEN <<id, ts, TRUE>>
    ELSE IF id # NullTimer
         THEN <<NullTimer, ts \ {id}, FALSE>>
         ELSE <<id, ts, FALSE>>

refreshSolvingButtons(solving, id, ts) ==
    IF solving
    THEN IF id = NullTimer
         THEN <<setInterval(ts), ts \cup {setInterval(ts)}, TRUE>>
         ELSE <<id, ts, TRUE>>
    ELSE IF id # NullTimer
         THEN <<NullTimer, ts \ {id}, FALSE>>
         ELSE <<id, ts, FALSE>>

SetButtons(solving) ==
    LET r == refreshSolvingButtons(solving, autoRefreshIntervalId, timers)
    IN  /\ autoRefreshIntervalId' = r[1]
        /\ timers' = r[2]
        /\ uiSolving' = r[3]

(***************************************************************************)
(* renderSchedule(schedule): the only state it touches is that of          *)
(* refreshSolvingButtons; the rest is DOM output.                          *)
(***************************************************************************)
isSolving(schedule) ==
    schedule.solverStatus # NullId /\ schedule.solverStatus # "NOT_SOLVING"

renderScheduleNoButtons(schedule) ==
    UNCHANGED <<autoRefreshIntervalId, timers, uiSolving>>

renderSchedule(schedule) ==
    IF schedule = NoSchedule
    THEN UNCHANGED <<autoRefreshIntervalId, timers, uiSolving>>
    ELSE SetButtons(isSolving(schedule))

(***************************************************************************)
(* refreshSchedule(): the request it issues for given scheduleId and       *)
(* demoDataId, or NoRequest when both are null (a warning is shown).       *)
(***************************************************************************)
refreshSchedulePreferDataset(sid, did, origin) ==
    IF did # NullId
    THEN Request("dataset", did, origin)
    ELSE IF sid = NullId
         THEN NoRequest
         ELSE Request("job", sid, origin)

refreshSchedule(sid, did, origin) ==
    IF sid = NullId
    THEN IF did = NullId
         THEN NoRequest
         ELSE Request("dataset", did, origin)
    ELSE Request("job", sid, origin)

(***************************************************************************)
(* Constraint weights.  weights holds what parseInt gives for the value of *)
(* each slider (a range input always holds a number); getConstraintWeights *)
(* replaces a value that is falsy, that is 0, by the default.  The body of *)
(* POST /schedules is the Schedule Model spread into an object with the    *)
(* weights added (JSON.stringify is one-to-one on these values).           *)
(***************************************************************************)
DEFAULT_WEIGHTS ==
    [RequiredSkill |-> 100, ResourceCapacity |-> 100,
     MinimizeDuration |-> 50, BalanceLoad |-> 50]

WeightNames == DOMAIN DEFAULT_WEIGHTS

OrDefault(value, default) == IF value = 0 THEN default ELSE value

getConstraintWeights(w) ==
    [required_skill |-> OrDefault(w.RequiredSkill, 100),
     resource_capacity |-> OrDefault(w.ResourceCapacity, 100),
     minimize_duration |-> OrDefault(w.MinimizeDuration, 50),
     balance_load |-> OrDefault(w.BalanceLoad, 50)]

Payload(schedule, constraintWeights) ==
    [resources |-> schedule.resources, tasks |-> schedule.tasks,
     score |-> schedule.score, solverStatus |-> schedule.solverStatus,
     constraintWeights |-> constraintWeights]

\* the score analysis modal before analyze() has written to it: view is
\* what #scoreAnalysisContent shows, rows the constraints of its table,
\* score the label #scoreAnalysisScore
NoContent == [view |-> "none", rows |-> << >>, score |-> NullId]

(***************************************************************************)
(* Ready: the document-ready callback has run.  Init: both one-shot events *)
(* (window load, 100 ms timer) have fired since, so that initializeApp has *)
(* run once and GET /demo-data is outstanding.                             *)
(***************************************************************************)
Ready ==
    /\ autoRefreshIntervalId = NullTimer
    /\ demoDataId = NullId
    /\ scheduleId = NullId
    /\ loadedSchedule = NoSchedule
    /\ initialized = FALSE
    /\ pendingInit = {"load", "timeout"}
    /\ dropdown = << >>
    /\ uiSolving = FALSE
    /\ timers = {}
    /\ inflight = EmptyBag
    /\ lastEvent = Event("ready", NoRequest, NoSchedule, NullTimer, FALSE)
    /\ sessionSolving = FALSE
    /\ jobLive = FALSE
    /\ weights = DEFAULT_WEIGHTS
    /\ scoreAnalysisContent = NoContent
    /\ serverStatus = NullId

Init ==
    /\ autoRefreshIntervalId = NullTimer
    /\ demoDataId = NullId
    /\ scheduleId = NullId
    /\ loadedSchedule = NoSchedule
    /\ initialized = TRUE
    /\ pendingInit = {}
    /\ dropdown = << >>
    /\ uiSolving = FALSE
    /\ timers = {}
    /\ inflight = SetToBag({Request("list", NullId, "init")})
    /\ lastEvent = Event("init", NoRequest, NoSchedule, NullTimer, FALSE)
    /\ sessionSolving = FALSE
    /\ jobLive = FALSE
    /\ weights = DEFAULT_WEIGHTS
    /\ scoreAnalysisContent = NoContent
    /\ serverStatus = NullId

(***************************************************************************)
(* safeInitialize, run by the window load event and by the 100 ms timer;   *)
(* initializeApp binds the buttons and calls fetchDemoData.                *)
(***************************************************************************)
safeInitializeNoFlag(ev) ==
    /\ ev \in pendingInit
    /\ pendingInit' = pendingInit \ {ev}
    /\ initialized' = TRUE
    /\ inflight' = Send(inflight, Request("list", NullId, "init"))
    /\ lastEvent' = Event("init", NoRequest, NoSchedule, NullTimer, FALSE)
    /\ UNCHANGED <<serverStatus, weights, scoreAnalysisContent,
                   autoRefreshIntervalId, demoDataId, scheduleId,
                   loadedSchedule, dropdown, uiSolving, timers,
                   sessionSolving, jobLive>>

safeInitialize(ev) ==
    /\ ev \in pendingInit
    /\ pendingInit' = pendingInit \ {ev}
    /\ IF ~initialized
       THEN /\ initialized' = TRUE
            /\ inflight' = Send(inflight,
                               Request("list", NullId, "init"))
       ELSE UNCHANGED <<initialized, inflight>>
    /\ lastEvent' = Event("init", NoRequest, NoSchedule, NullTimer, FALSE)
    /\ UNCHANGED <<serverStatus, weights, scoreAnalysisContent,
                   autoRefreshIntervalId, demoDataId, scheduleId,
                   loadedSchedule, dropdown, uiSolving, timers,
                   sessionSolving, jobLive>>

(***************************************************************************)
(* fetchDemoData: the answer to GET /demo-data.                            *)
(***************************************************************************)
fetchDemoDataDone(req, data) ==
    /\ req \in Pending /\ req.kind = "list"
    /\ dropdown' = data
    /\ IF Len(data) > 0
       THEN /\ demoDataId' = data[1]
            /\ inflight' = Issue(Receive(inflight, req),
                                 refreshSchedule(scheduleId, data[1], "auto"))
       ELSE /\ UNCHANGED demoDataId
            /\ inflight' = Receive(inflight, req)
    /\ lastEvent' = Event("listOk", req, NoSchedule, NullTimer, FALSE)
    /\ UNCHANGED <<serverStatus, weights, scoreAnalysisContent,
                   autoRefreshIntervalId, scheduleId, loadedSchedule,
                   initialized, pendingInit, uiSolving, timers,
                   sessionSolving, jobLive>>

fetchDemoDataFail(req) ==
    /\ req \in Pending /\ req.kind = "list"
    /\ inflight' = Receive(inflight, req)
    /\ lastEvent' = Event("listFail", req, NoSchedule, NullTimer, FALSE)
    /\ UNCHANGED <<serverStatus, weights, scoreAnalysisContent,
                   autoRefreshIntervalId, demoDataId, scheduleId,
                   loadedSchedule, initialized, pendingInit, dropdown,
                   uiSolving, timers, sessionSolving, jobLive>>

(***************************************************************************)
(* Click on a dataset of the dropdown (selectDataset).                     *)
(***************************************************************************)
selectDatasetKeepJob(item) ==
    /\ \E i \in 1..Len(dropdown) : dropdown[i] = item
    /\ CanSend
    /\ UNCHANGED scheduleId
    /\ demoDataId' = item
    /\ inflight' = Issue(Supersede(inflight),
                         refreshSchedule(scheduleId, item, "select"))
    /\ lastEvent' = [Event("select", NoRequest, item, NullTimer, FALSE)
                       EXCEPT !.pre = <<scheduleId, demoDataId>>]
    /\ sessionSolving' = FALSE
    /\ jobLive' = FALSE
    /\ UNCHANGED <<serverStatus, weights, scoreAnalysisContent,
                   autoRefreshIntervalId, loadedSchedule, initialized,
                   pendingInit, dropdown, uiSolving, timers>>

selectDataset(item) ==
    /\ \E i \in 1..Len(dropdown) : dropdown[i] = item
    /\ CanSend
    /\ scheduleId' = NullId
    /\ demoDataId' = item
    /\ inflight' = Issue(Supersede(inflight),
                         refreshSchedule(NullId, item, "select"))
    /\ lastEvent' = [Event("select", NoRequest, item, NullTimer, FALSE)
                       EXCEPT !.pre = <<scheduleId, demoDataId>>]
    /\ sessionSolving' = FALSE
    /\ jobLive' = FALSE
    /\ UNCHANGED <<serverStatus, weights, scoreAnalysisContent,
                   autoRefreshIntervalId, loadedSchedule, initialized,
                   pendingInit, dropdown, uiSolving, timers>>

(***************************************************************************)
(* The answer to a request of refreshSchedule.                             *)
(***************************************************************************)
refreshScheduleDoneMerge(req, schedule) ==
    /\ req \in Pending /\ req.kind \in {"dataset", "job"}
    /\ schedule \in (IF req.kind = "dataset"
                     THEN {DemoData(req.target)} ELSE JobSchedules)
    /\ loadedSchedule' = IF loadedSchedule = NoSchedule THEN schedule
                         ELSE [schedule EXCEPT !.tasks = loadedSchedule.tasks]
    /\ renderSchedule(schedule)
    /\ inflight' = Receive(inflight, req)
    /\ lastEvent' = Event("fetchOk", req, schedule, autoRefreshIntervalId,
                          Edited)
    /\ sessionSolving' = (sessionSolving /\ isSolving(schedule))
    /\ UNCHANGED <<serverStatus, weights, scoreAnalysisContent,
                   demoDataId, scheduleId, initialized, pendingInit,
                   dropdown, jobLive>>

refreshScheduleDoneNoRender(req, schedule) ==
    /\ req \in Pending /\ req.kind \in {"dataset", "job"}
    /\ schedule \in (IF req.kind = "dataset"
                     THEN {DemoData(req.target)} ELSE JobSchedules)
    /\ loadedSchedule' = schedule
    /\ inflight' = Receive(inflight, req)
    /\ lastEvent' = Event("fetchOk", req, schedule, autoRefreshIntervalId,
                          Edited)
    /\ sessionSolving' = (sessionSolving /\ isSolving(schedule))
    /\ UNCHANGED <<serverStatus, weights, scoreAnalysisContent,
                   autoRefreshIntervalId, timers, uiSolving, demoDataId,
                   scheduleId, initialized, pendingInit, dropdown, jobLive>>

refreshScheduleDone(req, schedule) ==
    /\ req \in Pending /\ req.kind \in {"dataset", "job"}
    /\ schedule \in (IF req.kind = "dataset"
                     THEN {DemoData(req.target)} ELSE JobSchedules)
    /\ loadedSchedule' = schedule
    /\ renderSchedule(schedule)
    /\ inflight' = Receive(inflight, req)
    /\ lastEvent' = Event("fetchOk", req, schedule, autoRefreshIntervalId,
                          Edited)
    /\ sessionSolving' = (sessionSolving /\ isSolving(schedule))
    /\ UNCHANGED <<serverStatus, weights, scoreAnalysisContent,
                   demoDataId, scheduleId, initialized, pendingInit,
                   dropdown, jobLive>>

refreshScheduleFailKeepButtons(req) ==
    /\ req \in Pending /\ req.kind \in {"dataset", "job"}
    /\ inflight' = Receive(inflight, req)
    /\ lastEvent' = Event("fetchFail", req, NoSchedule, autoRefreshIntervalId,
                          FALSE)
    /\ UNCHANGED <<serverStatus, weights, scoreAnalysisContent,
                   autoRefreshIntervalId, timers, uiSolving,
                   demoDataId, scheduleId, loadedSchedule, initialized,
                   pendingInit, dropdown, sessionSolving, jobLive>>

refreshScheduleFailRetry(req) ==
    /\ req \in Pending /\ req.kind \in {"dataset", "job"}
    /\ SetButtons(FALSE)
    /\ inflight' = inflight
    /\ lastEvent' = Event("fetchFail", req, NoSchedule, autoRefreshIntervalId,
                          FALSE)
    /\ UNCHANGED <<serverStatus, weights, scoreAnalysisContent,
                   demoDataId, scheduleId, loadedSchedule, initialized,
                   pendingInit, dropdown, sessionSolving, jobLive>>

refreshScheduleFailReset(req) ==
    /\ req \in Pending /\ req.kind \in {"dataset", "job"}
    /\ SetButtons(FALSE)
    /\ inflight' = Receive(inflight, req)
    /\ lastEvent' = Event("fetchFail", req, NoSchedule, autoRefreshIntervalId,
                          FALSE)
    /\ demoDataId' = NullId
    /\ loadedSchedule' = NoSchedule
    /\ UNCHANGED <<serverStatus, weights, scoreAnalysisContent,
                   scheduleId, initialized, pendingInit, dropdown,
                   sessionSolving, jobLive>>

refreshScheduleFail(req) ==
    /\ req \in Pending /\ req.kind \in {"dataset", "job"}
    /\ SetButtons(FALSE)
    /\ inflight' = Receive(inflight, req)
    /\ lastEvent' = Event("fetchFail", req, NoSchedule, autoRefreshIntervalId,
                          FALSE)
    /\ UNCHANGED <<serverStatus, weights, scoreAnalysisContent,
                   demoDataId, scheduleId, loadedSchedule, initialized,
                   pendingInit, dropdown, sessionSolving, jobLive>>

(***************************************************************************)
(* A tick of the polling interval.                                         *)
(***************************************************************************)
TickNoOverlap(t) ==
    /\ t \in timers
    /\ CanSend
    /\ inflight' = IF \E r \in BagToSet(inflight) : r.origin = "tick"
                   THEN inflight
                   ELSE Issue(inflight,
                              refreshSchedule(scheduleId, demoDataId, "tick"))
    /\ lastEvent' = Event("tick", NoRequest, NoSchedule, NullTimer, FALSE)
    /\ UNCHANGED <<serverStatus, weights, scoreAnalysisContent,
                   autoRefreshIntervalId, demoDataId, scheduleId,
                   loadedSchedule, initialized, pendingInit, dropdown,
                   uiSolving, timers, sessionSolving, jobLive>>

Tick(t) ==
    /\ t \in timers
    /\ CanSend
    /\ inflight' = Issue(inflight,
                         refreshSchedule(scheduleId, demoDataId, "tick"))
    /\ lastEvent' = Event("tick", NoRequest, NoSchedule, NullTimer, FALSE)
    /\ UNCHANGED <<serverStatus, weights, scoreAnalysisContent,
                   autoRefreshIntervalId, demoDataId, scheduleId,
                   loadedSchedule, initialized, pendingInit, dropdown,
                   uiSolving, timers, sessionSolving, jobLive>>

(***************************************************************************)
(* solve(): click on the Solve button, and the answer to POST /schedules.  *)
(***************************************************************************)
solveNoCheck ==
    /\ initialized
    /\ CanSend
    /\ inflight' = Send(inflight,
                        Request("post", NullId, "solve"))
    /\ lastEvent' = Event("solve", NoRequest,
                          IF loadedSchedule = NoSchedule THEN NoSchedule
                          ELSE Payload(loadedSchedule,
                                       getConstraintWeights(weights)),
                          NullTimer, FALSE)
    /\ UNCHANGED <<serverStatus, weights, scoreAnalysisContent,
                   autoRefreshIntervalId, demoDataId, scheduleId,
                   loadedSchedule, initialized, pendingInit, dropdown,
                   uiSolving, timers, sessionSolving, jobLive>>

solveTasksOnly ==
    /\ initialized
    /\ IF loadedSchedule = NoSchedule
       THEN /\ UNCHANGED inflight
            /\ lastEvent' = Event("solveRejected", NoRequest, NoSchedule,
                                  NullTimer, FALSE)
       ELSE /\ CanSend
            /\ inflight' = Send(inflight,
                                Request("post", NullId, "solve"))
            /\ lastEvent' = Event("solve", NoRequest,
                                  Payload([loadedSchedule EXCEPT
                                              !.resources = << >>],
                                          getConstraintWeights(weights)),
                                  NullTimer, FALSE)
    /\ UNCHANGED <<serverStatus, weights, scoreAnalysisContent,
                   autoRefreshIntervalId, demoDataId, scheduleId,
                   loadedSchedule, initialized, pendingInit, dropdown,
                   uiSolving, timers, sessionSolving, jobLive>>

solve ==
    /\ initialized
    /\ IF loadedSchedule = NoSchedule
       THEN /\ UNCHANGED inflight
            /\ lastEvent' = Event("solveRejected", NoRequest, NoSchedule,
                                  NullTimer, FALSE)
       ELSE /\ CanSend
            /\ inflight' = Send(inflight,
                                Request("post", NullId, "solve"))
            /\ lastEvent' = Event("solve", NoRequest,
                                  Payload(loadedSchedule,
                                          getConstraintWeights(weights)),
                                  NullTimer, FALSE)
    /\ UNCHANGED <<serverStatus, weights, scoreAnalysisContent,
                   autoRefreshIntervalId, demoDataId, scheduleId,
                   loadedSchedule, initialized, pendingInit, dropdown,
                   uiSolving, timers, sessionSolving, jobLive>>

solveDone(req, data) ==
    /\ req \in Pending /\ req.kind = "post"
    /\ data \in JobIds
    /\ scheduleId' = data
    /\ SetButtons(TRUE)
    /\ inflight' = Receive(inflight, req)
    /\ lastEvent' = Event("solveOk", req, data, autoRefreshIntervalId, FALSE)
    /\ sessionSolving' = TRUE
    /\ jobLive' = (jobLive \/ ~req.superseded)
    /\ UNCHANGED <<serverStatus, weights, scoreAnalysisContent,
                   demoDataId, loadedSchedule, initialized, pendingInit,
                   dropdown>>

solveFail(req) ==
    /\ req \in Pending /\ req.kind = "post"
    /\ SetButtons(FALSE)
    /\ inflight' = Receive(inflight, req)
    /\ lastEvent' = Event("solveFail", req, NoSchedule, autoRefreshIntervalId,
                          FALSE)
    /\ UNCHANGED <<serverStatus, weights, scoreAnalysisContent,
                   demoDataId, scheduleId, loadedSchedule, initialized,
                   pendingInit, dropdown, sessionSolving, jobLive>>

(***************************************************************************)
(* stopSolving(): click on the Stop button, and the answer to DELETE.      *)
(***************************************************************************)
stopSolvingNoCheck ==
    /\ initialized
    /\ CanSend
    /\ inflight' = Send(inflight,
                        Request("delete", scheduleId, "stop"))
    /\ lastEvent' = Event("stop", NoRequest, NoSchedule, NullTimer, FALSE)
    /\ UNCHANGED <<serverStatus, weights, scoreAnalysisContent,
                   autoRefreshIntervalId, demoDataId, scheduleId,
                   loadedSchedule, initialized, pendingInit, dropdown,
                   uiSolving, timers, sessionSolving, jobLive>>

stopSolving ==
    /\ initialized
    /\ IF scheduleId = NullId
       THEN /\ UNCHANGED inflight
            /\ lastEvent' = Event("stopRejected", NoRequest, NoSchedule,
                                  NullTimer, FALSE)
       ELSE /\ CanSend
            /\ inflight' = Send(inflight,
                                Request("delete", scheduleId, "stop"))
            /\ lastEvent' = Event("stop", NoRequest, NoSchedule, NullTimer,
                                  FALSE)
    /\ UNCHANGED <<serverStatus, weights, scoreAnalysisContent,
                   autoRefreshIntervalId, demoDataId, scheduleId,
                   loadedSchedule, initialized, pendingInit, dropdown,
                   uiSolving, timers, sessionSolving, jobLive>>

stopSolvingDoneClearJob(req) ==
    /\ req \in Pending /\ req.kind = "delete"
    /\ SetButtons(FALSE)
    /\ scheduleId' = NullId
    /\ inflight' = Issue(Receive(inflight, req),
                         refreshSchedule(NullId, demoDataId, "stop"))
    /\ lastEvent' = Event("stopOk", req, NoSchedule, autoRefreshIntervalId,
                          FALSE)
    /\ sessionSolving' = FALSE
    /\ UNCHANGED <<serverStatus, weights, scoreAnalysisContent,
                   demoDataId, loadedSchedule, initialized,
                   pendingInit, dropdown, jobLive>>

stopSolvingDoneKeepLoop(req) ==
    /\ req \in Pending /\ req.kind = "delete"
    /\ inflight' = Issue(Receive(inflight, req),
                         refreshSchedule(scheduleId, demoDataId, "stop"))
    /\ lastEvent' = Event("stopOk", req, NoSchedule, autoRefreshIntervalId,
                          FALSE)
    /\ sessionSolving' = FALSE
    /\ UNCHANGED <<serverStatus, weights, scoreAnalysisContent,
                   autoRefreshIntervalId, timers, uiSolving, demoDataId,
                   scheduleId, loadedSchedule, initialized, pendingInit,
                   dropdown, jobLive>>

stopSolvingDone(req) ==
    /\ req \in Pending /\ req.kind = "delete"
    /\ SetButtons(FALSE)
    /\ inflight' = Issue(Receive(inflight, req),
                         refreshSchedule(scheduleId, demoDataId, "stop"))
    /\ lastEvent' = Event("stopOk", req, NoSchedule, autoRefreshIntervalId,
                          FALSE)
    /\ sessionSolving' = FALSE
    /\ UNCHANGED <<serverStatus, weights, scoreAnalysisContent,
                   demoDataId, scheduleId, loadedSchedule, initialized,
                   pendingInit, dropdown, jobLive>>

stopSolvingFailRefresh(req) ==
    /\ req \in Pending /\ req.kind = "delete"
    /\ inflight' = Issue(Receive(inflight, req),
                         refreshSchedule(scheduleId, demoDataId, "stop"))
    /\ lastEvent' = Event("stopFail", req, NoSchedule, autoRefreshIntervalId,
                          FALSE)
    /\ UNCHANGED <<serverStatus, weights, scoreAnalysisContent,
                   autoRefreshIntervalId, demoDataId, scheduleId,
                   loadedSchedule, initialized, pendingInit, dropdown,
                   uiSolving, timers, sessionSolving, jobLive>>

stopSolvingFail(req) ==
    /\ req \in Pending /\ req.kind = "delete"
    /\ inflight' = Receive(inflight, req)
    /\ lastEvent' = Event("stopFail", req, NoSchedule, autoRefreshIntervalId,
                          FALSE)
    /\ UNCHANGED <<serverStatus, weights, scoreAnalysisContent,
                   autoRefreshIntervalId, demoDataId, scheduleId,
                   loadedSchedule, initialized, pendingInit, dropdown,
                   uiSolving, timers, sessionSolving, jobLive>>

(***************************************************************************)
(* Local edit: addTask() with the form's trimmed name, its duration (0 for *)
(* an empty or non-numeric field) and its lower-cased skill.               *)
(***************************************************************************)
EmptySchedule ==
    [resources |-> << >>, tasks |-> << >>, score |-> NullId,
     solverStatus |-> NullId]

\* `task-${n}`
TaskIdOf(n) == "task-" \o ToString(n)

RECURSIVE newTaskId(_, _)
newTaskId(tasks, counter) ==
    IF \E i \in 1..Len(tasks) : tasks[i].id = TaskIdOf(counter)
    THEN newTaskId(tasks, counter + 1)
    ELSE TaskIdOf(counter)

TaskNames == {"N"}

\* the number of tasks of the Schedule Model
TaskCount == IF loadedSchedule = NoSchedule THEN 0
             ELSE Len(loadedSchedule.tasks)

addTaskNoIncrement(name, duration, requiredSkill) ==
    LET base == IF loadedSchedule = NoSchedule THEN EmptySchedule
                ELSE loadedSchedule
        task == [id |-> TaskIdOf(Len(base.tasks) + 1),
                 name |-> name,
                 duration |-> IF duration = 0 THEN 30 ELSE duration,
                 requiredSkill |-> requiredSkill,
                 resource |-> NullId]
        next == [base EXCEPT !.tasks = Append(base.tasks, task)]
    IN  /\ IF name = ""
           THEN /\ UNCHANGED <<loadedSchedule, autoRefreshIntervalId, timers,
                               uiSolving>>
                /\ lastEvent' = Event("addTaskRejected", NoRequest, NoSchedule,
                                      NullTimer, FALSE)
           ELSE /\ loadedSchedule' = next
                /\ renderSchedule(next)
                /\ lastEvent' = Event("addTask", NoRequest, NoSchedule,
                                      NullTimer, FALSE)
        /\ UNCHANGED <<serverStatus, weights, scoreAnalysisContent,
                       demoDataId, scheduleId, initialized, pendingInit,
                       dropdown, inflight, sessionSolving, jobLive>>

addTask(name, duration, requiredSkill) ==
    LET base == IF loadedSchedule = NoSchedule THEN EmptySchedule
                ELSE loadedSchedule
        task == [id |-> newTaskId(base.tasks, Len(base.tasks) + 1),
                 name |-> name,
                 duration |-> IF duration = 0 THEN 30 ELSE duration,
                 requiredSkill |-> requiredSkill,
                 resource |-> NullId]
        next == [base EXCEPT !.tasks = Append(base.tasks, task)]
    IN  /\ IF name = ""
           THEN /\ UNCHANGED <<loadedSchedule, autoRefreshIntervalId, timers,
                               uiSolving>>
                /\ lastEvent' = Event("addTaskRejected", NoRequest, NoSchedule,
                                      NullTimer, FALSE)
           ELSE /\ loadedSchedule' = next
                /\ renderSchedule(next)
                /\ lastEvent' = Event("addTask", NoRequest, NoSchedule,
                                      NullTimer, FALSE)
        /\ UNCHANGED <<serverStatus, weights, scoreAnalysisContent,
                       demoDataId, scheduleId, initialized, pendingInit,
                       dropdown, inflight, sessionSolving, jobLive>>

(***************************************************************************)
(* Local edits: addResource() with the form's trimmed name, its capacity   *)
(* (0 for an empty or non-numeric field) and its lower-cased skills;       *)
(* removeResource(resourceName); removeTask(taskId).                       *)
(***************************************************************************)
ResourceB == [name |-> "B", capacity |-> 100, skills |-> {}]

Task2 == [id |-> "task-2", name |-> "T2", duration |-> 30,
          requiredSkill |-> "", resource |-> NullId]

ResourceNames == {"A", "B"}

TaskIds == {"task-1", "task-2"}

EditEvent(op, data) ==
    [Event(op, NoRequest, data, NullTimer, FALSE) EXCEPT !.pre = loadedSchedule]

addResourceNoDuplicateCheck(name, capacity, skills) ==
    LET base == IF loadedSchedule = NoSchedule THEN EmptySchedule
                ELSE loadedSchedule
        resource == [name |-> name,
                     capacity |-> IF capacity = 0 THEN 100 ELSE capacity,
                     skills |-> skills]
        next == [base EXCEPT !.resources = Append(base.resources, resource)]
    IN  /\ IF name = ""
           THEN /\ UNCHANGED <<loadedSchedule, autoRefreshIntervalId, timers,
                               uiSolving>>
                /\ lastEvent' = EditEvent("addResourceRejected", name)
           ELSE /\ loadedSchedule' = next
                /\ renderSchedule(next)
                /\ lastEvent' = EditEvent("addResource", name)
        /\ UNCHANGED <<serverStatus, weights, scoreAnalysisContent,
                       demoDataId, scheduleId, initialized, pendingInit,
                       dropdown, inflight, sessionSolving, jobLive>>

addResource(name, capacity, skills) ==
    LET base == IF loadedSchedule = NoSchedule THEN EmptySchedule
                ELSE loadedSchedule
        resource == [name |-> name,
                     capacity |-> IF capacity = 0 THEN 100 ELSE capacity,
                     skills |-> skills]
        next == [base EXCEPT !.resources = Append(base.resources, resource)]
    IN  /\ IF name = ""
           THEN /\ UNCHANGED <<loadedSchedule, autoRefreshIntervalId, timers,
                               uiSolving>>
                /\ lastEvent' = EditEvent("addResourceRejected", name)
           ELSE IF \E i \in 1..Len(base.resources) :
                      base.resources[i].name = name
           THEN /\ UNCHANGED <<loadedSchedule, autoRefreshIntervalId, timers,
                               uiSolving>>
                /\ lastEvent' = EditEvent("addResourceDuplicate", name)
           ELSE /\ loadedSchedule' = next
                /\ renderSchedule(next)
                /\ lastEvent' = EditEvent("addResource", name)
        /\ UNCHANGED <<serverStatus, weights, scoreAnalysisContent,
                       demoDataId, scheduleId, initialized, pendingInit,
                       dropdown, inflight, sessionSolving, jobLive>>

\* resources.filter(r => r.name !== resourceName)
WithoutResource(resources, resourceName) ==
    LET keep(r) == r.name # resourceName
    IN  SelectSeq(resources, keep)

\* tasks.forEach(task => { if (task.resource === resourceName) ... = null })
Unassigned(tasks, resourceName) ==
    [i \in 1..Len(tasks) |->
        IF tasks[i].resource = resourceName
        THEN [tasks[i] EXCEPT !.resource = NullId]
        ELSE tasks[i]]

removeResourceUnassignAll(resourceName) ==
    LET next == [loadedSchedule EXCEPT
                    !.resources = WithoutResource(loadedSchedule.resources,
                                                  resourceName),
                    !.tasks = [i \in 1..Len(loadedSchedule.tasks) |->
                                  [loadedSchedule.tasks[i]
                                      EXCEPT !.resource = NullId]]]
    IN  /\ IF loadedSchedule = NoSchedule
           THEN /\ UNCHANGED <<loadedSchedule, autoRefreshIntervalId, timers,
                               uiSolving>>
                /\ lastEvent' = EditEvent("removeResourceRejected",
                                          resourceName)
           ELSE /\ loadedSchedule' = next
                /\ renderSchedule(next)
                /\ lastEvent' = EditEvent("removeResource", resourceName)
        /\ UNCHANGED <<serverStatus, weights, scoreAnalysisContent,
                       demoDataId, scheduleId, initialized, pendingInit,
                       dropdown, inflight, sessionSolving, jobLive>>

removeResourceNoUnassign(resourceName) ==
    LET next == [loadedSchedule EXCEPT
                    !.resources = WithoutResource(loadedSchedule.resources,
                                                  resourceName)]
    IN  /\ IF loadedSchedule = NoSchedule
           THEN /\ UNCHANGED <<loadedSchedule, autoRefreshIntervalId, timers,
                               uiSolving>>
                /\ lastEvent' = EditEvent("removeResourceRejected",
                                          resourceName)
           ELSE /\ loadedSchedule' = next
                /\ renderSchedule(next)
                /\ lastEvent' = EditEvent("removeResource", resourceName)
        /\ UNCHANGED <<serverStatus, weights, scoreAnalysisContent,
                       demoDataId, scheduleId, initialized, pendingInit,
                       dropdown, inflight, sessionSolving, jobLive>>

removeResource(resourceName) ==
    LET next == [loadedSchedule EXCEPT
                    !.resources = WithoutResource(loadedSchedule.resources,
                                                  resourceName),
                    !.tasks = Unassigned(loadedSchedule.tasks, resourceName)]
    IN  /\ IF loadedSchedule = NoSchedule
           THEN /\ UNCHANGED <<loadedSchedule, autoRefreshIntervalId, timers,
                               uiSolving>>
                /\ lastEvent' = EditEvent("removeResourceRejected",
                                          resourceName)
           ELSE /\ loadedSchedule' = next
                /\ renderSchedule(next)
                /\ lastEvent' = EditEvent("removeResource", resourceName)
        /\ UNCHANGED <<serverStatus, weights, scoreAnalysisContent,
                       demoDataId, scheduleId, initialized, pendingInit,
                       dropdown, inflight, sessionSolving, jobLive>>

\* tasks.filter(t => t.id !== taskId)
WithoutTask(tasks, taskId) ==
    LET keep(t) == t.id # taskId
    IN  SelectSeq(tasks, keep)

removeTask(taskId) ==
    LET next == [loadedSchedule EXCEPT
                    !.tasks = WithoutTask(loadedSchedule.tasks, taskId)]
    IN  /\ IF loadedSchedule = NoSchedule
           THEN /\ UNCHANGED <<loadedSchedule, autoRefreshIntervalId, timers,
                               uiSolving>>
                /\ lastEvent' = EditEvent("removeTaskRejected", taskId)
           ELSE /\ loadedSchedule' = next
                /\ renderSchedule(next)
                /\ lastEvent' = EditEvent("removeTask", taskId)
        /\ UNCHANGED <<serverStatus, weights, scoreAnalysisContent,
                       demoDataId, scheduleId, initialized, pendingInit,
                       dropdown, inflight, sessionSolving, jobLive>>

(***************************************************************************)
(* refreshSchedule() called as such (it is a global function; the handlers *)
(* above call it only after scheduleId or demoDataId has been set).        *)
(***************************************************************************)
refreshScheduleCallNoCheck ==
    /\ CanSend
    /\ inflight' = Send(inflight, Request("job", scheduleId, "call"))
    /\ lastEvent' = Event("refresh", NoRequest, NoSchedule, NullTimer, FALSE)
    /\ UNCHANGED <<serverStatus, weights, scoreAnalysisContent,
                   autoRefreshIntervalId, demoDataId, scheduleId,
                   loadedSchedule, initialized, pendingInit, dropdown,
                   uiSolving, timers, sessionSolving, jobLive>>

refreshScheduleCall ==
    /\ CanSend
    /\ inflight' = Issue(inflight,
                         refreshSchedule(scheduleId, demoDataId, "call"))
    /\ lastEvent' = Event(IF refreshSchedule(scheduleId, demoDataId, "call")
                             = NoRequest
                          THEN "refreshWarned" ELSE "refresh",
                          NoRequest, NoSchedule, NullTimer, FALSE)
    /\ UNCHANGED <<serverStatus, weights, scoreAnalysisContent,
                   autoRefreshIntervalId, demoDataId, scheduleId,
                   loadedSchedule, initialized, pendingInit, dropdown,
                   uiSolving, timers, sessionSolving, jobLive>>

(***************************************************************************)
(* Constraint weight controls: a slider is moved (its oninput handler,     *)
(* updateWeightDisplay, only copies the value to a label), or the sliders  *)
(* are reset by resetConstraintWeights().                                  *)
(***************************************************************************)
WeightValues == {0, 150}

updateWeightDisplay(constraintName, value) ==
    /\ weights' = [weights EXCEPT ![constraintName] = value]
    /\ lastEvent' = Event("setWeight", NoRequest, constraintName, NullTimer,
                          FALSE)
    /\ UNCHANGED <<serverStatus, scoreAnalysisContent, autoRefreshIntervalId, demoDataId,
                   scheduleId, loadedSchedule, initialized, pendingInit,
                   dropdown, uiSolving, timers, inflight, sessionSolving,
                   jobLive>>

resetConstraintWeights ==
    /\ weights' = DEFAULT_WEIGHTS
    /\ lastEvent' = Event("resetWeights", NoRequest, NoSchedule, NullTimer,
                          FALSE)
    /\ UNCHANGED <<serverStatus, scoreAnalysisContent, autoRefreshIntervalId, demoDataId,
                   scheduleId, loadedSchedule, initialized, pendingInit,
                   dropdown, uiSolving, timers, inflight, sessionSolving,
                   jobLive>>

(***************************************************************************)
(* countViolations(schedule), shown by updateKPIs: one for every task with *)
(* a resource and a required skill whose resource (the first of that name) *)
(* is found and lacks the skill, one for every resource whose tasks last   *)
(* longer in all than its capacity.                                        *)
(***************************************************************************)
\* resources.find(r => r.name === name): its index, 0 when there is none
FindResource(resources, name) ==
    IF \E i \in 1..Len(resources) : resources[i].name = name
    THEN CHOOSE i \in 1..Len(resources) :
            /\ resources[i].name = name
            /\ \A j \in 1..(i - 1) : resources[j].name # name
    ELSE 0

RECURSIVE SkillViolations(_, _, _)
SkillViolations(schedule, i, violations) ==
    IF i > Len(schedule.tasks) THEN violations
    ELSE LET task == schedule.tasks[i]
             found == FindResource(schedule.resources, task.resource)
         IN  SkillViolations(schedule, i + 1,
                 IF /\ task.resource # NullId /\ task.resource # ""
                    /\ task.requiredSkill # ""
                    /\ found # 0
                    /\ task.requiredSkill \notin schedule.resources[found].skills
                 THEN violations + 1 ELSE violations)

\* tasks.filter(t => t.resource === name).reduce((sum, t) => sum + t.duration, 0)
RECURSIVE TotalDuration(_, _, _, _)
TotalDuration(tasks, name, i, sum) ==
    IF i > Len(tasks) THEN sum
    ELSE TotalDuration(tasks, name, i + 1,
                       IF tasks[i].resource = name
                       THEN sum + tasks[i].duration ELSE sum)

RECURSIVE CapacityViolations(_, _, _)
CapacityViolations(schedule, i, violations) ==
    IF i > Len(schedule.resources) THEN violations
    ELSE CapacityViolations(schedule, i + 1,
             IF TotalDuration(schedule.tasks, schedule.resources[i].name, 1, 0)
                    > schedule.resources[i].capacity
             THEN violations + 1 ELSE violations)

countViolationsSkillsOnly(schedule) ==
    SkillViolations(schedule, 1, 0)

countViolations(schedule) ==
    CapacityViolations(schedule, 1, SkillViolations(schedule, 1, 0))

updateKPIs ==
    /\ loadedSchedule # NoSchedule
    /\ lastEvent' = Event("updateKPIs", NoRequest,
                          [totalTasks |-> Len(loadedSchedule.tasks),
                           assignedTasks |->
                               Cardinality({i \in 1..Len(loadedSchedule.tasks) :
                                   loadedSchedule.tasks[i].resource # NullId}),
                           violations |-> countViolations(loadedSchedule)],
                          NullTimer, FALSE)
    /\ UNCHANGED <<serverStatus, weights, scoreAnalysisContent, autoRefreshIntervalId,
                   demoDataId, scheduleId, loadedSchedule, initialized,
                   pendingInit, dropdown, uiSolving, timers, inflight,
                   sessionSolving, jobLive>>

(***************************************************************************)
(* Score analysis.  A score string is the sequence of <<number, label>>    *)
(* pairs the pattern /(-?\d*\.?\d+)(hard|medium|soft)/g finds in it;       *)
(* getScoreComponents gives every label the number of its last pair and 0  *)
(* to a label with no pair.                                                *)
(***************************************************************************)
\* constraints a score analysis may hold
MaxConstraints == 3

RECURSIVE Components(_, _, _)
Components(score, i, components) ==
    IF i > Len(score) THEN components
    ELSE Components(score, i + 1,
                    [components EXCEPT ![score[i][2]] = score[i][1]])

getScoreComponents(score) ==
    IF score = NullId THEN [hard |-> 0, medium |-> 0, soft |-> 0]
    ELSE Components(score, 1, [hard |-> 0, medium |-> 0, soft |-> 0])

Abs(n) == IF n < 0 THEN -n ELSE n

\* the comparator given to constraints.sort
compareAscending(a, b) ==
    LET aComponents == getScoreComponents(a.score)
        bComponents == getScoreComponents(b.score)
    IN  IF aComponents.hard < 0 /\ bComponents.hard >= 0 THEN -1
        ELSE IF aComponents.hard >= 0 /\ bComponents.hard < 0 THEN 1
        ELSE IF Abs(aComponents.hard) # Abs(bComponents.hard)
        THEN Abs(aComponents.hard) - Abs(bComponents.hard)
        ELSE Abs(bComponents.soft) - Abs(aComponents.soft)

compare(a, b) ==
    LET aComponents == getScoreComponents(a.score)
        bComponents == getScoreComponents(b.score)
    IN  IF aComponents.hard < 0 /\ bComponents.hard >= 0 THEN -1
        ELSE IF aComponents.hard >= 0 /\ bComponents.hard < 0 THEN 1
        ELSE IF Abs(aComponents.hard) # Abs(bComponents.hard)
        THEN Abs(bComponents.hard) - Abs(aComponents.hard)
        ELSE Abs(bComponents.soft) - Abs(aComponents.soft)

\* Array.prototype.sort is stable: element j comes before element i when
\* the comparator puts it first, or puts neither first and j < i
BeforeLaterFirst(constraints, j, i) ==
    \/ compare(constraints[j], constraints[i]) < 0
    \/ compare(constraints[j], constraints[i]) = 0 /\ j > i

Before(constraints, j, i) ==
    \/ compare(constraints[j], constraints[i]) < 0
    \/ compare(constraints[j], constraints[i]) = 0 /\ j < i

\* the index element i has after the sort
Rank(constraints, i) ==
    1 + Cardinality({j \in 1..Len(constraints) : Before(constraints, j, i)})

sort(constraints) ==
    [k \in 1..Len(constraints) |->
        constraints[CHOOSE i \in 1..Len(constraints) :
                        Rank(constraints, i) = k]]

\* renderScoreAnalysis(scoreAnalysis, container): what the container shows
renderScoreAnalysis(scoreAnalysis) ==
    IF Len(scoreAnalysis.constraints) = 0
    THEN [view |-> "empty", rows |-> << >>]
    ELSE [view |-> "table", rows |-> sort(scoreAnalysis.constraints)]

\* what PUT /schedules/analyze may answer
Constraint(name, score) == [name |-> name, score |-> score]

AnalysisConstraints ==
    {Constraint("Cap", <<<<-1, "hard">>>>),
     Constraint("Bal", <<<<-20, "soft">>>>),
     Constraint("Skill", <<<<-3, "hard">>>>),
     Constraint("Dur", <<<<-1, "hard">>, <<-5, "soft">>>>),
     Constraint("Rew", <<<<2, "hard">>, <<0, "soft">>>>),
     Constraint("Min", <<<<0, "hard">>, <<-20, "soft">>>>)}

\* lists of distinct constraints
ConstraintLists ==
    UNION {{l \in [1..n -> AnalysisConstraints] :
               \A i, j \in 1..n : l[i] = l[j] => i = j} :
           n \in 0..MaxConstraints}

ScoreAnalyses == {[constraints |-> l] : l \in ConstraintLists}

\* no request is outstanding
Quiet == inflight = EmptyBag

ContentEvent(op, req, data) ==
    [Event(op, req, data, NullTimer, FALSE)
        EXCEPT !.pre = scoreAnalysisContent.view]

analyze ==
    /\ initialized
    /\ IF loadedSchedule = NoSchedule
       THEN /\ scoreAnalysisContent' =
                   [scoreAnalysisContent EXCEPT !.view = "noData",
                                                !.rows = << >>]
            /\ UNCHANGED inflight
            /\ lastEvent' = ContentEvent("analyzeRejected", NoRequest,
                                         NoSchedule)
       ELSE /\ CanSend
            /\ scoreAnalysisContent' =
                   [view |-> "analyzing", rows |-> << >>,
                    score |-> IF loadedSchedule.score = NullId THEN "?"
                              ELSE loadedSchedule.score]
            /\ inflight' = Send(inflight, Request("put", NullId, "analyze"))
            /\ lastEvent' = ContentEvent("analyze", NoRequest, loadedSchedule)
    /\ UNCHANGED <<serverStatus, weights, autoRefreshIntervalId, demoDataId, scheduleId,
                   loadedSchedule, initialized, pendingInit, dropdown,
                   uiSolving, timers, sessionSolving, jobLive>>

analyzeDone(req, scoreAnalysis) ==
    /\ req \in Pending /\ req.kind = "put"
    /\ scoreAnalysisContent' =
           [scoreAnalysisContent EXCEPT
               !.view = renderScoreAnalysis(scoreAnalysis).view,
               !.rows = renderScoreAnalysis(scoreAnalysis).rows]
    /\ inflight' = Receive(inflight, req)
    /\ lastEvent' = Event("analyzeOk", req, scoreAnalysis, NullTimer, FALSE)
    /\ UNCHANGED <<serverStatus, weights, autoRefreshIntervalId, demoDataId, scheduleId,
                   loadedSchedule, initialized, pendingInit, dropdown,
                   uiSolving, timers, sessionSolving, jobLive>>

analyzeFailKeepView(req) ==
    /\ req \in Pending /\ req.kind = "put"
    /\ inflight' = Receive(inflight, req)
    /\ lastEvent' = ContentEvent("analyzeFail", req, NoSchedule)
    /\ UNCHANGED <<serverStatus, weights, scoreAnalysisContent, autoRefreshIntervalId,
                   demoDataId, scheduleId, loadedSchedule, initialized,
                   pendingInit, dropdown, uiSolving, timers, sessionSolving,
                   jobLive>>

analyzeFail(req) ==
    /\ req \in Pending /\ req.kind = "put"
    /\ scoreAnalysisContent' =
           [scoreAnalysisContent EXCEPT !.view = "failed", !.rows = << >>]
    /\ inflight' = Receive(inflight, req)
    /\ lastEvent' = ContentEvent("analyzeFail", req, NoSchedule)
    /\ UNCHANGED <<serverStatus, weights, autoRefreshIntervalId, demoDataId, scheduleId,
                   loadedSchedule, initialized, pendingInit, dropdown,
                   uiSolving, timers, sessionSolving, jobLive>>

(***************************************************************************)
(* Specifications.  Spec starts when initializeApp has run; SpecBoot       *)
(* starts at document ready and includes the two one-shot events.          *)
(***************************************************************************)
Next ==
    \/ \E req \in Pending, data \in DatasetLists : fetchDemoDataDone(req, data)
    \/ \E req \in Pending : fetchDemoDataFail(req)
    \/ \E item \in DatasetIds : selectDataset(item)
    \/ \E req \in Pending, schedule \in ServerSchedules :
           refreshScheduleDone(req, schedule)
    \/ \E req \in Pending : refreshScheduleFail(req)
    \/ \E t \in timers : Tick(t)
    \/ solve
    \/ \E req \in Pending, data \in JobIds : solveDone(req, data)
    \/ \E req \in Pending : solveFail(req)
    \/ stopSolving
    \/ \E req \in Pending : stopSolvingDone(req)
    \/ \E req \in Pending : stopSolvingFail(req)
    \/ \E name \in TaskNames : TaskCount < MaxTasks /\ addTask(name, 5, "y")

Spec == Init /\ [][Next]_vars

NextBoot ==
    \/ \E ev \in {"load", "timeout"} : safeInitialize(ev)
    \/ Next

SpecBoot == Ready /\ [][NextBoot]_vars

(***************************************************************************)
(* SpecEdit: the local edits alone, from every Schedule Model of a bounded *)
(* family in which resource names are distinct and every assigned task     *)
(* names a resource of the schedule, with the loop running or stopped.     *)
(***************************************************************************)
ResourceLists == {<< >>, <<ResourceA>>, <<ResourceA, ResourceB>>}

NamesOf(resources) == {resources[i].name : i \in 1..Len(resources)}

TaskLists(resources) ==
    LET assign == NamesOf(resources) \cup {NullId}
    IN  {<< >>}
        \cup {<<[Task1 EXCEPT !.resource = r1]>> : r1 \in assign}
        \cup {<<[Task1 EXCEPT !.resource = r1],
                [Task2 EXCEPT !.resource = r2]>> : r1 \in assign, r2 \in assign}

EditSchedules ==
    UNION {{[resources |-> rs, tasks |-> ts, score |-> NullId,
             solverStatus |-> st] :
                ts \in TaskLists(rs), st \in {"NOT_SOLVING", "SOLVING"}} :
           rs \in ResourceLists}

InitEdit ==
    /\ loadedSchedule \in EditSchedules \cup {NoSchedule}
    /\ autoRefreshIntervalId \in
           IF loadedSchedule = NoSchedule THEN {NullTimer} ELSE {NullTimer, 1}
    /\ timers = IF autoRefreshIntervalId = NullTimer
                THEN {} ELSE {autoRefreshIntervalId}
    /\ uiSolving = (autoRefreshIntervalId # NullTimer)
    /\ demoDataId = IF loadedSchedule = NoSchedule THEN NullId ELSE "LARGE"
    /\ scheduleId = IF autoRefreshIntervalId = NullTimer
                    THEN NullId ELSE "job-1"
    /\ initialized = TRUE
    /\ pendingInit = {}
    /\ dropdown = IF demoDataId = NullId THEN << >> ELSE <<"SMALL", "LARGE">>
    /\ inflight = EmptyBag
    /\ lastEvent = Event("init", NoRequest, NoSchedule, NullTimer, FALSE)
    /\ sessionSolving = (autoRefreshIntervalId # NullTimer)
    /\ jobLive = (scheduleId # NullId)
    /\ weights = DEFAULT_WEIGHTS
    /\ scoreAnalysisContent = NoContent
    /\ serverStatus = NullId

NextEdit ==
    \/ \E name \in ResourceNames \cup {""} : addResource(name, 0, {})
    \/ \E resourceName \in ResourceNames : removeResource(resourceName)
    \/ \E name \in TaskNames :
           TaskCount < MaxEditTasks /\ addTask(name, 5, "y")
    \/ \E taskId \in TaskIds : removeTask(taskId)

SpecEdit == InitEdit /\ [][NextEdit]_vars

(***************************************************************************)
(* SpecInit: from the document-ready callback, the two one-shot events and *)
(* the loading and editing of datasets, with no job started.               *)
(***************************************************************************)
NextInit ==
    \/ \E ev \in {"load", "timeout"} : safeInitialize(ev)
    \/ \E req \in Pending, data \in DatasetLists : fetchDemoDataDone(req, data)
    \/ \E req \in Pending : fetchDemoDataFail(req)
    \/ \E item \in DatasetIds : selectDataset(item)
    \/ \E req \in Pending, schedule \in ServerSchedules :
           refreshScheduleDone(req, schedule)
    \/ \E req \in Pending : refreshScheduleFail(req)
    \/ \E name \in TaskNames : TaskCount < MaxTasks /\ addTask(name, 5, "y")

SpecInit == Ready /\ [][NextInit]_vars

(***************************************************************************)
(* SpecForm: the add forms alone, with the numbers parseInt can give for   *)
(* a number field (0 also stands for an empty or non-numeric field).       *)
(***************************************************************************)
FormNumbers == {-5, 0, 7}

NextForm ==
    \/ \E name \in ResourceNames \cup {""}, capacity \in FormNumbers :
           addResource(name, capacity, {})
    \/ \E name \in TaskNames, duration \in FormNumbers :
           TaskCount < MaxEditTasks /\ addTask(name, duration, "y")

SpecForm == InitEdit /\ [][NextForm]_vars

(***************************************************************************)
(* SpecRefresh: refreshSchedule() and its answers, from every combination  *)
(* of scheduleId, demoDataId and Schedule Model of a bounded family.       *)
(***************************************************************************)
InitRefresh ==
    /\ scheduleId \in JobIds \cup {NullId}
    /\ demoDataId \in DatasetIds \cup {NullId}
    /\ loadedSchedule \in ServerSchedules \cup {NoSchedule}
    /\ loadedSchedule \in DatasetSchedules => demoDataId # NullId
    /\ loadedSchedule \in JobSchedules =>
           (scheduleId # NullId \/ demoDataId # NullId)
    /\ scheduleId # NullId => loadedSchedule # NoSchedule
    /\ autoRefreshIntervalId \in
           IF loadedSchedule = NoSchedule THEN {NullTimer} ELSE {NullTimer, 1}
    /\ timers = IF autoRefreshIntervalId = NullTimer
                THEN {} ELSE {autoRefreshIntervalId}
    /\ uiSolving = (autoRefreshIntervalId # NullTimer)
    /\ initialized = TRUE
    /\ pendingInit = {}
    /\ dropdown = IF demoDataId = NullId THEN << >> ELSE <<"SMALL", "LARGE">>
    /\ inflight = EmptyBag
    /\ lastEvent = Event("init", NoRequest, NoSchedule, NullTimer, FALSE)
    /\ sessionSolving = (autoRefreshIntervalId # NullTimer
                         /\ scheduleId # NullId)
    /\ jobLive = (scheduleId # NullId)
    /\ weights = DEFAULT_WEIGHTS
    /\ scoreAnalysisContent = NoContent
    /\ serverStatus = NullId

NextRefresh ==
    \/ refreshScheduleCall
    \/ \E req \in Pending, schedule \in ServerSchedules :
           refreshScheduleDone(req, schedule)
    \/ \E req \in Pending : refreshScheduleFail(req)

SpecRefresh == InitRefresh /\ [][NextRefresh]_vars

(***************************************************************************)
(* SpecSolve: solve() and its answers with the weight controls and local   *)
(* edits, from a session with the dataset LARGE loaded or nothing loaded.  *)
(***************************************************************************)
InitSolve ==
    /\ loadedSchedule \in {NoSchedule, DemoData("LARGE")}
    /\ autoRefreshIntervalId = NullTimer
    /\ timers = {}
    /\ uiSolving = FALSE
    /\ demoDataId = IF loadedSchedule = NoSchedule THEN NullId ELSE "LARGE"
    /\ scheduleId = NullId
    /\ initialized = TRUE
    /\ pendingInit = {}
    /\ dropdown = IF demoDataId = NullId THEN << >> ELSE <<"SMALL", "LARGE">>
    /\ inflight = EmptyBag
    /\ lastEvent = Event("init", NoRequest, NoSchedule, NullTimer, FALSE)
    /\ sessionSolving = FALSE
    /\ jobLive = FALSE
    /\ weights = DEFAULT_WEIGHTS
    /\ scoreAnalysisContent = NoContent
    /\ serverStatus = NullId

NextSolve ==
    \/ \E constraintName \in WeightNames, value \in WeightValues :
           updateWeightDisplay(constraintName, value)
    \/ resetConstraintWeights
    \/ solve
    \/ \E req \in Pending : solveDone(req, "job-1")
    \/ \E req \in Pending : solveFail(req)
    \/ \E name \in TaskNames :
           TaskCount < MaxEditTasks /\ addTask(name, 5, "y")
    \/ removeResource("A")

SpecSolve == InitSolve /\ [][NextSolve]_vars

(***************************************************************************)
(* SpecKPI: updateKPIs on every Schedule Model of a bounded family: up to  *)
(* three resources of distinct names, up to three tasks, each unassigned   *)
(* or assigned to a name that a resource of the schedule may have.         *)
(***************************************************************************)
ResourceC == [name |-> "C", capacity |-> 30, skills |-> {"x", "y"}]

KPIResourceLists ==
    {<< >>, <<ResourceA>>, <<ResourceB, ResourceA>>,
     <<ResourceA, ResourceB, ResourceC>>}

KPITask(n) ==
    IF n = 1 THEN Task1
    ELSE IF n = 2 THEN [Task2 EXCEPT !.requiredSkill = "y"]
    ELSE [id |-> "task-3", name |-> "T3", duration |-> 30,
          requiredSkill |-> "", resource |-> NullId]

KPIAssignments == {NullId, "A", "B", "C"}

KPITaskLists ==
    UNION {{[i \in 1..n |-> [KPITask(i) EXCEPT !.resource = a[i]]] :
               a \in [1..n -> KPIAssignments]} : n \in 0..3}

InitKPI ==
    /\ loadedSchedule \in
           {[resources |-> rs, tasks |-> ts, score |-> NullId,
             solverStatus |-> "NOT_SOLVING"] :
                rs \in KPIResourceLists, ts \in KPITaskLists}
    /\ autoRefreshIntervalId = NullTimer
    /\ timers = {}
    /\ uiSolving = FALSE
    /\ demoDataId = "LARGE"
    /\ scheduleId = NullId
    /\ initialized = TRUE
    /\ pendingInit = {}
    /\ dropdown = <<"SMALL", "LARGE">>
    /\ inflight = EmptyBag
    /\ lastEvent = Event("init", NoRequest, NoSchedule, NullTimer, FALSE)
    /\ sessionSolving = FALSE
    /\ jobLive = FALSE
    /\ weights = DEFAULT_WEIGHTS
    /\ scoreAnalysisContent = NoContent
    /\ serverStatus = NullId

NextKPI == updateKPIs

SpecKPI == InitKPI /\ [][NextKPI]_vars

(***************************************************************************)
(* SpecAnalyze: analyze() and its answers of at most two constraints, with *)
(* nothing, a dataset or a solution loaded.  SpecScoreTable: every answer  *)
(* of the bounded family to one analyze().                                 *)
(***************************************************************************)
InitAnalyze ==
    /\ loadedSchedule \in
           {NoSchedule, DemoData("LARGE"), JobSchedule("NOT_SOLVING")}
    /\ autoRefreshIntervalId = NullTimer
    /\ timers = {}
    /\ uiSolving = FALSE
    /\ demoDataId = IF loadedSchedule = NoSchedule THEN NullId ELSE "LARGE"
    /\ scheduleId = IF loadedSchedule \in JobSchedules THEN "job-1" ELSE NullId
    /\ initialized = TRUE
    /\ pendingInit = {}
    /\ dropdown = IF demoDataId = NullId THEN << >> ELSE <<"SMALL", "LARGE">>
    /\ inflight = EmptyBag
    /\ lastEvent = Event("init", NoRequest, NoSchedule, NullTimer, FALSE)
    /\ sessionSolving = FALSE
    /\ jobLive = (scheduleId # NullId)
    /\ weights = DEFAULT_WEIGHTS
    /\ scoreAnalysisContent = NoContent
    /\ serverStatus = NullId

ShortAnalyses == {a \in ScoreAnalyses : Len(a.constraints) <= 2}

NextAnalyze ==
    \/ analyze
    \/ \E req \in Pending, scoreAnalysis \in ShortAnalyses :
           analyzeDone(req, scoreAnalysis)
    \/ \E req \in Pending : analyzeFail(req)

SpecAnalyze == InitAnalyze /\ [][NextAnalyze]_vars

InitScoreTable ==
    /\ InitAnalyze
    /\ loadedSchedule # NoSchedule

NextScoreTable ==
    \/ Quiet /\ lastEvent.op = "init" /\ analyze
    \/ \E req \in Pending, scoreAnalysis \in ScoreAnalyses :
           analyzeDone(req, scoreAnalysis)

SpecScoreTable == InitScoreTable /\ [][NextScoreTable]_vars

(***************************************************************************)
(* SpecSession: every handler that can run once the page is initialized,   *)
(* with one request outstanding at a time.                                 *)
(***************************************************************************)
NextSession ==
    \/ \E req \in Pending, data \in DatasetLists : fetchDemoDataDone(req, data)
    \/ \E req \in Pending : fetchDemoDataFail(req)
    \/ \E item \in DatasetIds : Quiet /\ selectDataset(item)
    \/ \E req \in Pending, schedule \in ServerSchedules :
           refreshScheduleDone(req, schedule)
    \/ \E req \in Pending : refreshScheduleFail(req)
    \/ \E t \in timers : Quiet /\ Tick(t)
    \/ Quiet /\ solve
    \/ \E req \in Pending, data \in JobIds : solveDone(req, data)
    \/ \E req \in Pending : solveFail(req)
    \/ Quiet /\ stopSolving
    \/ \E req \in Pending : stopSolvingDone(req)
    \/ \E req \in Pending : stopSolvingFail(req)
    \/ addResource("B", 0, {})
    \/ removeResource("A")
    \/ \E name \in TaskNames : TaskCount < MaxTasks /\ addTask(name, 5, "y")
    \/ removeTask("task-1")
    \/ Quiet /\ analyze
    \/ \E req \in Pending : analyzeDone(req, [constraints |-> << >>])
    \/ \E req \in Pending : analyzeFail(req)
    \/ updateWeightDisplay("RequiredSkill", 0)
    \/ resetConstraintWeights

SpecSession == Init /\ [][NextSession]_vars

(***************************************************************************)
(* SpecLive: a Solving session left alone.  The server's job is solving    *)
(* and ends at some time (jobEnds); a fetch is answered with the job's     *)
(* schedule of the time the server handles it, so that a fetch outstanding *)
(* when the job ends (early) may still be answered with the schedule of    *)
(* the solving job.  No fetch fails and the user does nothing; at the      *)
(* start the fetch of a tick may be outstanding.  The                      *)
(* interval keeps firing while it is set, every fetch is answered and the  *)
(* job ends: weak fairness of the three actions.                           *)
(***************************************************************************)
MarkEarly(bag) ==
    IF bag = EmptyBag THEN EmptyBag
    ELSE LET S == {[r EXCEPT !.early = TRUE] : r \in BagToSet(bag)}
         IN  [s \in S |->
                 BagCardinality(
                     [r \in {q \in BagToSet(bag) :
                                [q EXCEPT !.early = TRUE] = s} |-> bag[r]])]

jobEnds ==
    /\ serverStatus = "SOLVING"
    /\ serverStatus' = "NOT_SOLVING"
    /\ inflight' = MarkEarly(inflight)
    /\ UNCHANGED <<autoRefreshIntervalId, demoDataId, scheduleId,
                   loadedSchedule, initialized, pendingInit, dropdown,
                   uiSolving, timers, lastEvent, sessionSolving, jobLive,
                   weights, scoreAnalysisContent>>

Answers(req) ==
    {JobSchedule(st) :
        st \in IF serverStatus = "SOLVING" THEN {"SOLVING"}
               ELSE IF req.early THEN {"SOLVING", "NOT_SOLVING"}
               ELSE {"NOT_SOLVING"}}

InitSolving ==
    /\ scheduleId \in JobIds
    /\ demoDataId \in DatasetIds
    /\ loadedSchedule \in {DemoData(demoDataId), JobSchedule("SOLVING")}
    /\ autoRefreshIntervalId = 1
    /\ timers = {1}
    /\ uiSolving = TRUE
    /\ initialized = TRUE
    /\ pendingInit = {}
    /\ dropdown = <<"SMALL", "LARGE">>
    /\ inflight \in {EmptyBag,
                     SetToBag({refreshSchedule(scheduleId, demoDataId,
                                               "tick")})}
    /\ lastEvent = Event("init", NoRequest, NoSchedule, NullTimer, FALSE)
    /\ sessionSolving = TRUE
    /\ jobLive = TRUE
    /\ weights = DEFAULT_WEIGHTS
    /\ scoreAnalysisContent = NoContent

InitLive == InitSolving /\ serverStatus = "SOLVING"

TickLive == \E t \in timers : Tick(t)

AnswerLive ==
    \E req \in Pending :
        \E schedule \in Answers(req) : refreshScheduleDone(req, schedule)

NextLive ==
    \/ TickLive
    \/ AnswerLive
    \/ jobEnds

SpecLive ==
    /\ InitLive /\ [][NextLive]_vars
    /\ WF_vars(TickLive) /\ WF_vars(AnswerLive) /\ WF_vars(jobEnds)

(***************************************************************************)
(* SpecReselect: a Solving session in which datasets are selected and no   *)
(* job is started, so that every fetch of a job was issued before every    *)
(* selection.                                                              *)
(***************************************************************************)
InitReselect == InitSolving /\ serverStatus = NullId

NextReselect ==
    \/ \E t \in timers : Tick(t)
    \/ \E item \in DatasetIds : selectDataset(item)
    \/ \E req \in Pending, schedule \in ServerSchedules :
           refreshScheduleDone(req, schedule)
    \/ \E req \in Pending : refreshScheduleFail(req)

SpecReselect == InitReselect /\ [][NextReselect]_vars

(***************************************************************************)
(* Properties of the session controller.                                   *)
(*                                                                         *)
(* Every action sets lastEvent, so a step that changes the state and ends  *)
(* with lastEvent.op = x is a step of the handler x.                       *)
(***************************************************************************)
FailureOps == {"listFail", "fetchFail", "solveFail", "stopFail"}

\* C1 as stated: after the answer to a DELETE, success or failure, the
\* polling timer is cleared and the idle controls are shown.
C1_StopAlwaysLeavesSolving ==
    lastEvent.op \in {"stopOk", "stopFail"} =>
        autoRefreshIntervalId = NullTimer /\ ~uiSolving

\* C1 amended: a successful DELETE clears the polling timer and shows the
\* idle controls; a failed DELETE leaves the timer and the controls as they
\* were.
C1_StopOutcome ==
    [][ /\ lastEvent'.op = "stopOk" =>
              autoRefreshIntervalId' = NullTimer /\ timers' = {} /\ ~uiSolving'
        /\ lastEvent'.op = "stopFail" =>
              UNCHANGED <<autoRefreshIntervalId, timers, uiSolving>> ]_vars

\* a DELETE failed while the loop was running, and the loop still runs
C1_Witness ==
    /\ lastEvent.op = "stopFail"
    /\ lastEvent.prevTimer # NullTimer
    /\ autoRefreshIntervalId = lastEvent.prevTimer
    /\ autoRefreshIntervalId \in timers
    /\ uiSolving

\* C2: the polling timer is set exactly when the session is Solving, that
\* is a solve has succeeded and neither a stop, a terminal fetch nor a
\* dataset selection has happened since.
C2_PollIffSolving ==
    (autoRefreshIntervalId # NullTimer) <=> sessionSolving

\* C3: solve() with no Schedule loaded issues no request, keeps scheduleId
\* and does not start the loop.
C3_SolveRejectedWithoutSchedule ==
    [][ (lastEvent'.op \in {"solve", "solveRejected"}
         /\ loadedSchedule = NoSchedule) =>
            UNCHANGED <<inflight, scheduleId, autoRefreshIntervalId, timers,
                        uiSolving, loadedSchedule>> ]_vars

\* solve() was called with nothing loaded and nothing is outstanding
C3_Witness ==
    /\ lastEvent.op = "solveRejected"
    /\ loadedSchedule = NoSchedule
    /\ inflight = EmptyBag
    /\ scheduleId = NullId
    /\ autoRefreshIntervalId = NullTimer

\* C4: a successful fetch makes the Schedule Model exactly the fetched
\* Schedule; a failed fetch leaves the Schedule Model as it was.
C4_AtomicReplacement ==
    [][ /\ lastEvent'.op = "fetchOk" => loadedSchedule' = lastEvent'.data
        /\ lastEvent'.op = "fetchFail" => loadedSchedule' = loadedSchedule
      ]_vars

\* a fetched Schedule has replaced a Schedule Model that held a local edit
C4_Witness ==
    /\ lastEvent.op = "fetchOk"
    /\ lastEvent.prevEdited
    /\ loadedSchedule = lastEvent.data
    /\ loadedSchedule \in ServerSchedules

C6_FailedSelectRollsBack ==
    [][ (/\ lastEvent.op = "select"
         /\ lastEvent'.op = "fetchFail"
         /\ lastEvent'.req.origin = "select"
         /\ lastEvent'.req.target = lastEvent.data) =>
            /\ scheduleId' = lastEvent.pre[1]
            /\ demoDataId' = lastEvent.pre[2]
            /\ loadedSchedule' = loadedSchedule ]_vars

\* C6 amended: the failure of a selection's dataset fetch changes neither
\* scheduleId, demoDataId nor the Schedule Model: the values the selection
\* set are not rolled back.
C6_FailedSelectKeepsSelection ==
    [][ (lastEvent'.op = "fetchFail" /\ lastEvent'.req.origin = "select") =>
            UNCHANGED <<scheduleId, demoDataId, loadedSchedule>> ]_vars

\* the fetch of a selection made over the solution of a job failed: the
\* handle is still cleared, the new dataset still selected and the Schedule
\* Model still the job's solution
C6_Witness ==
    /\ lastEvent.op = "fetchFail"
    /\ lastEvent.req.origin = "select"
    /\ scheduleId = NullId
    /\ demoDataId = lastEvent.req.target
    /\ loadedSchedule \in JobSchedules

\* C7: a failed solve request leaves scheduleId, demoDataId, the Schedule
\* Model and the running or stopped condition of the loop as they were.
C7_FailedSolveChangesNothing ==
    [][ lastEvent'.op = "solveFail" =>
            UNCHANGED <<scheduleId, demoDataId, loadedSchedule,
                        autoRefreshIntervalId, timers>> ]_vars

\* C8: a successful solve sets scheduleId to the handle the server sent,
\* with the loop running and the solving controls shown; no other step
\* sets scheduleId to a non-null value.
C8_SolveSuccessSetsHandle ==
    [][ /\ lastEvent'.op = "solveOk" =>
              /\ lastEvent'.data \in JobIds
              /\ scheduleId' = lastEvent'.data
              /\ autoRefreshIntervalId' # NullTimer
              /\ timers' = {autoRefreshIntervalId'}
              /\ uiSolving'
        /\ (scheduleId' # scheduleId /\ scheduleId' # NullId) =>
              lastEvent'.op = "solveOk" ]_vars

\* a solve succeeded while the loop was stopped: handle set, loop started
C8_Witness ==
    /\ lastEvent.op = "solveOk"
    /\ lastEvent.prevTimer = NullTimer
    /\ scheduleId = lastEvent.data
    /\ autoRefreshIntervalId \in timers
    /\ uiSolving

\* C9: scheduleId is set exactly when a solve job has been started and no
\* dataset has been selected since solve() was called for it.
C9_HandleIffLiveJob ==
    (scheduleId # NullId) <=> jobLive

\* C10: a dataset of the dropdown can be selected in every state; the
\* selection clears scheduleId, sets demoDataId, issues exactly one
\* request, a fetch of that dataset, and no DELETE.
C10_SelectDataset ==
    /\ [](\A i \in 1..Len(dropdown) :
             CanSend => ENABLED selectDataset(dropdown[i]))
    /\ [][ lastEvent'.op = "select" =>
              /\ scheduleId' = NullId
              /\ demoDataId' = lastEvent'.data
              /\ BagCardinality(inflight') = BagCardinality(inflight) + 1
              /\ \E r \in BagToSet(inflight') :
                    /\ r.kind = "dataset" /\ r.target = lastEvent'.data
                    /\ CopiesIn(r, inflight') = CopiesIn(r, inflight) + 1
              /\ \A r \in BagToSet(inflight') :
                    r.kind = "delete" =>
                        CopiesIn(r, inflight') = CopiesIn(r, inflight) ]_vars

\* a dataset was selected while the loop was running for a job
C10_Witness ==
    /\ lastEvent.op = "select"
    /\ autoRefreshIntervalId # NullTimer
    /\ scheduleId = NullId
    /\ demoDataId = lastEvent.data
    /\ \E r \in BagToSet(inflight) : r.kind = "dataset" /\ r.target = demoDataId

\* the requests of kind k issued by the step: in flight after it and not,
\* or in fewer copies, before it
Issued(k) ==
    {r \in BagToSet(inflight') :
        r.kind \in k /\ CopiesIn(r, inflight') > CopiesIn(r, inflight)}

\* C11: when a dataset fetch succeeds, the Schedule Model is that dataset,
\* with solverStatus NOT_SOLVING and score null, the session is not
\* Solving, no poll timer exists and the idle controls are shown.
C11_DatasetLoaded ==
    [][ (lastEvent'.op = "fetchOk" /\ lastEvent'.req.kind = "dataset") =>
            /\ loadedSchedule' = DemoData(lastEvent'.req.target)
            /\ loadedSchedule'.solverStatus = "NOT_SOLVING"
            /\ loadedSchedule'.score = NullId
            /\ ~sessionSolving'
            /\ autoRefreshIntervalId' = NullTimer
            /\ timers' = {}
            /\ ~uiSolving' ]_vars

\* the dataset fetch of a selection succeeded after a solve started since
\* the selection had set the handle and started the loop
C11_Witness ==
    /\ lastEvent.op = "fetchOk"
    /\ lastEvent.req.kind = "dataset"
    /\ lastEvent.req.origin = "select"
    /\ scheduleId # NullId
    /\ jobLive
    /\ loadedSchedule = DemoData(lastEvent.req.target)
    /\ autoRefreshIntervalId = NullTimer

\* C12 as stated: the answer to a DELETE, success or failure, issues
\* exactly one request, a fetch of the state of the job the DELETE named.
C12_StopAlwaysFetchesJob ==
    [][ lastEvent'.op \in {"stopOk", "stopFail"} =>
            inflight' = Send(Receive(inflight, lastEvent'.req),
                             Request("job", lastEvent'.req.target, "stop"))
      ]_vars

\* C12 amended: stop() with scheduleId set issues exactly one DELETE, for
\* that handle; the success of a DELETE issues exactly the request of one
\* refresh() (the job of the handle set then, the selected dataset if the
\* handle was cleared since); the failure of a DELETE issues nothing; no
\* other step issues a DELETE or a fetch on behalf of stop.
C12_StopFetchesOnSuccessOnly ==
    [][ /\ lastEvent'.op = "stop" =>
              /\ scheduleId # NullId
              /\ inflight' = Send(inflight,
                                  Request("delete", scheduleId, "stop"))
        /\ lastEvent'.op = "stopOk" =>
              /\ scheduleId' = scheduleId /\ demoDataId' = demoDataId
              /\ inflight' = Issue(Receive(inflight, lastEvent'.req),
                                   refreshSchedule(scheduleId, demoDataId,
                                                   "stop"))
        /\ lastEvent'.op = "stopFail" =>
              inflight' = Receive(inflight, lastEvent'.req)
        /\ Issued({"delete"}) # {} => lastEvent'.op = "stop"
        /\ (\E r \in Issued({"dataset", "job"}) : r.origin = "stop") =>
              lastEvent'.op = "stopOk" ]_vars

\* a DELETE for the current handle failed and no final fetch is outstanding
C12_Witness ==
    /\ lastEvent.op = "stopFail"
    /\ lastEvent.req.target = scheduleId
    /\ \A r \in BagToSet(inflight) : r.kind \notin {"dataset", "job"}

\* C13: stop() with scheduleId null issues no request and changes neither
\* scheduleId, demoDataId, the poll timer nor the Schedule Model.
C13_StopRejectedWithoutHandle ==
    [][ (lastEvent'.op \in {"stop", "stopRejected"} /\ scheduleId = NullId) =>
            UNCHANGED <<inflight, scheduleId, demoDataId,
                        autoRefreshIntervalId, timers, uiSolving,
                        loadedSchedule>> ]_vars

\* stop() was called with no handle over a loaded dataset
C13_Witness ==
    /\ lastEvent.op = "stopRejected"
    /\ scheduleId = NullId
    /\ demoDataId # NullId
    /\ loadedSchedule \in DatasetSchedules
    /\ \A r \in BagToSet(inflight) : r.kind # "delete"

\* C15: every fetch a step issues is the one refresh() decides from the
\* scheduleId and demoDataId of the moment of the call: the job of
\* scheduleId when it is set, otherwise the dataset of demoDataId.
C15_RefreshTarget ==
    [][ \A r \in Issued({"dataset", "job"}) :
            /\ Cardinality(Issued({"dataset", "job"})) = 1
            /\ CopiesIn(r, inflight') = CopiesIn(r, inflight) + 1
            /\ IF scheduleId' # NullId
               THEN r.kind = "job" /\ r.target = scheduleId'
               ELSE r.kind = "dataset" /\ r.target = demoDataId' ]_vars

\* a tick after a dataset selection made while solving has issued a fetch
\* of the dataset
C15_Witness ==
    /\ lastEvent.op = "tick"
    /\ scheduleId = NullId
    /\ autoRefreshIntervalId \in timers
    /\ \E r \in BagToSet(inflight) :
          r.kind = "dataset" /\ r.origin = "tick" /\ r.target = demoDataId

\* C16: the only timer that can exist is the one autoRefreshIntervalId
\* names; a request to start the loop while it runs creates no timer, and
\* when the handle is cleared no timer is left.
C16_SingleTimer ==
    /\ [](timers = IF autoRefreshIntervalId = NullTimer
                   THEN {} ELSE {autoRefreshIntervalId})
    /\ [][ /\ autoRefreshIntervalId # NullTimer => timers' \subseteq timers
           /\ autoRefreshIntervalId' = NullTimer => timers' = {} ]_vars

\* a solve succeeded while the loop was running: still one timer, the same
C16_Witness ==
    /\ lastEvent.op = "solveOk"
    /\ lastEvent.prevTimer # NullTimer
    /\ autoRefreshIntervalId = lastEvent.prevTimer
    /\ timers = {autoRefreshIntervalId}

\* C17: refreshSolvingButtons(false) applied twice gives what it gives
\* applied once, and applied while the loop is stopped it changes nothing.
C17_StopIdempotent ==
    /\ [](LET once == refreshSolvingButtons(FALSE, autoRefreshIntervalId,
                                            timers)
              twice == refreshSolvingButtons(FALSE, once[1], once[2])
          IN  /\ twice = once
              /\ autoRefreshIntervalId = NullTimer =>
                     once = <<autoRefreshIntervalId, timers, uiSolving>>)
    /\ [][ (/\ lastEvent'.op \in {"fetchFail", "solveFail", "stopOk"}
            /\ autoRefreshIntervalId = NullTimer) =>
               UNCHANGED <<autoRefreshIntervalId, timers, uiSolving>> ]_vars

\* a solve failed while a handle was set and the loop stopped: the loop-stop
\* operation ran on a stopped loop and left it stopped
C17_Witness ==
    /\ lastEvent.op = "solveFail"
    /\ lastEvent.prevTimer = NullTimer
    /\ autoRefreshIntervalId = NullTimer
    /\ timers = {}
    /\ ~uiSolving
    /\ scheduleId # NullId

\* C14: refreshSchedule() called while scheduleId and demoDataId are both
\* null issues no request and changes neither the session nor the Schedule
\* Model nor the loop.
C14_RefreshWithoutTarget ==
    [][ (/\ lastEvent'.op \in {"refresh", "refreshWarned"}
         /\ scheduleId = NullId /\ demoDataId = NullId) =>
            /\ lastEvent'.op = "refreshWarned"
            /\ UNCHANGED <<inflight, scheduleId, demoDataId, loadedSchedule,
                           autoRefreshIntervalId, timers, uiSolving>> ]_vars

\* refreshSchedule() was called with neither a handle nor a dataset
C14_Witness ==
    /\ lastEvent.op = "refreshWarned"
    /\ scheduleId = NullId
    /\ demoDataId = NullId
    /\ inflight = EmptyBag

\* C18: after removeResource(r) no resource is named r and no task is
\* assigned to r; the other resources are kept, in their order, and every
\* task that was not assigned to r is as it was.
C18_RemoveResource ==
    [][ lastEvent'.op = "removeResource" =>
          LET r == lastEvent'.data
              old == loadedSchedule
              new == loadedSchedule'
          IN  /\ r \notin NamesOf(new.resources)
              /\ \A i \in 1..Len(new.tasks) : new.tasks[i].resource # r
              /\ new.resources = WithoutResource(old.resources, r)
              /\ Len(new.tasks) = Len(old.tasks)
              /\ \A i \in 1..Len(old.tasks) :
                    /\ old.tasks[i].resource # r => new.tasks[i] = old.tasks[i]
                    /\ new.tasks[i] =
                           [old.tasks[i] EXCEPT !.resource = new.tasks[i].resource]
      ]_vars

\* resource A was removed from a schedule with a task assigned to A and a
\* task assigned to B: the first is unassigned, the second still on B
C18_Witness ==
    /\ lastEvent.op = "removeResource"
    /\ lastEvent.data = "A"
    /\ lastEvent.pre # NoSchedule
    /\ Len(lastEvent.pre.tasks) = 2
    /\ lastEvent.pre.tasks[1].resource = "A"
    /\ lastEvent.pre.tasks[2].resource = "B"
    /\ loadedSchedule.resources = <<ResourceB>>
    /\ loadedSchedule.tasks[1].resource = NullId
    /\ loadedSchedule.tasks[2].resource = "B"

\* every assigned task of the schedule names a resource of the schedule
ReferentialIntegrity(schedule) ==
    schedule # NoSchedule =>
        \A i \in 1..Len(schedule.tasks) :
            schedule.tasks[i].resource # NullId =>
                schedule.tasks[i].resource \in NamesOf(schedule.resources)

\* C19: under local edits alone, every assigned task of the Schedule Model
\* names a resource of the Schedule Model.
C19_ReferentialIntegrity == ReferentialIntegrity(loadedSchedule)

\* a resource that a task was assigned to has been removed
C19_Witness ==
    /\ lastEvent.op = "removeResource"
    /\ lastEvent.pre # NoSchedule
    /\ \E i \in 1..Len(lastEvent.pre.tasks) :
          lastEvent.pre.tasks[i].resource = lastEvent.data
    /\ Len(loadedSchedule.tasks) > 0
    /\ ReferentialIntegrity(loadedSchedule)

\* the names of the resources of the schedule are pairwise distinct
DistinctNames(schedule) ==
    schedule # NoSchedule =>
        \A i, j \in 1..Len(schedule.resources) :
            schedule.resources[i].name = schedule.resources[j].name => i = j

\* C20: addResource() with the name of a resource of the Schedule Model
\* leaves the Schedule Model and the loop as they were; under local edits
\* alone resource names stay pairwise distinct.
C20_DuplicateResourceRejected ==
    /\ [][ (/\ lastEvent'.op \in {"addResource", "addResourceDuplicate"}
            /\ loadedSchedule # NoSchedule
            /\ lastEvent'.data \in NamesOf(loadedSchedule.resources)) =>
               /\ lastEvent'.op = "addResourceDuplicate"
               /\ UNCHANGED <<loadedSchedule, autoRefreshIntervalId, timers,
                              uiSolving, inflight, scheduleId, demoDataId>>
         ]_vars
    /\ []DistinctNames(loadedSchedule)

\* addResource() was called with the name of a resource of the schedule
C20_Witness ==
    /\ lastEvent.op = "addResourceDuplicate"
    /\ lastEvent.pre = loadedSchedule
    /\ lastEvent.data \in NamesOf(loadedSchedule.resources)
    /\ Len(loadedSchedule.resources) = 2

\* the ids of the tasks of the schedule
IdsOf(schedule) ==
    IF schedule = NoSchedule THEN {}
    ELSE {schedule.tasks[i].id : i \in 1..Len(schedule.tasks)}

\* the ids of the tasks of the schedule are pairwise distinct
DistinctIds(schedule) ==
    schedule # NoSchedule =>
        \A i, j \in 1..Len(schedule.tasks) :
            schedule.tasks[i].id = schedule.tasks[j].id => i = j

\* the local edits
EditOps == {"addResource", "removeResource", "addTask", "removeTask"}

\* C21: under local edits alone task ids stay pairwise distinct; the id
\* addTask gives, with n tasks present, is task-k for the least k > n that
\* no task present has.
C21_DistinctTaskIds ==
    /\ []DistinctIds(loadedSchedule)
    /\ [][ lastEvent'.op = "addTask" =>
             LET n == TaskCount
                 new == loadedSchedule'.tasks[n + 1].id
             IN  /\ Len(loadedSchedule'.tasks) = n + 1
                 /\ \E k \in (n + 1)..(2 * n + 1) :
                       /\ new = TaskIdOf(k)
                       /\ new \notin IdsOf(loadedSchedule)
                       /\ \A j \in (n + 1)..(k - 1) :
                             TaskIdOf(j) \in IdsOf(loadedSchedule) ]_vars

\* a task was added to a schedule whose only task was task-2: it is task-3
C21_Witness ==
    /\ lastEvent.op = "addTask"
    /\ Len(loadedSchedule.tasks) = 2
    /\ loadedSchedule.tasks[1].id = "task-2"
    /\ loadedSchedule.tasks[2].id = "task-3"

\* C22: while the session is Solving a local edit does not change the
\* Schedule Model.
C22_NoEditWhileSolving ==
    [][ (lastEvent'.op \in EditOps /\ sessionSolving) =>
            loadedSchedule' = loadedSchedule ]_vars

C24_WeightsPassedThrough ==
    [][ lastEvent'.op = "solve" =>
            lastEvent'.data.constraintWeights =
                [required_skill |-> weights.RequiredSkill,
                 resource_capacity |-> weights.ResourceCapacity,
                 minimize_duration |-> weights.MinimizeDuration,
                 balance_load |-> weights.BalanceLoad] ]_vars

\* the tasks of the schedule with a resource of the schedule and a
\* required skill that the resource lacks
SkillMismatches(schedule) ==
    {i \in 1..Len(schedule.tasks) :
        /\ schedule.tasks[i].resource # NullId
        /\ schedule.tasks[i].requiredSkill # ""
        /\ \E j \in 1..Len(schedule.resources) :
              /\ schedule.resources[j].name = schedule.tasks[i].resource
              /\ schedule.tasks[i].requiredSkill
                     \notin schedule.resources[j].skills}

\* the total duration of the tasks among the first n assigned to name
RECURSIVE Load(_, _, _)
Load(schedule, name, n) ==
    IF n = 0 THEN 0
    ELSE Load(schedule, name, n - 1)
         + (IF schedule.tasks[n].resource = name
            THEN schedule.tasks[n].duration ELSE 0)

\* the resources of the schedule loaded beyond their capacity
Overloaded(schedule) ==
    {j \in 1..Len(schedule.resources) :
        Load(schedule, schedule.resources[j].name, Len(schedule.tasks))
            > schedule.resources[j].capacity}

\* C25: the violation count shown is the number of tasks whose resource
\* lacks their required skill plus the number of resources loaded beyond
\* their capacity.
C25_ViolationCount ==
    lastEvent.op = "updateKPIs" =>
        lastEvent.data.violations
            = Cardinality(SkillMismatches(loadedSchedule))
              + Cardinality(Overloaded(loadedSchedule))

\* resource A (capacity 60, skills {x}) with t1 (40, x, A) and t2 (30, y, A)
\* counts 2
C25_Witness ==
    /\ lastEvent.op = "updateKPIs"
    /\ loadedSchedule.resources = <<ResourceA>>
    /\ Len(loadedSchedule.tasks) = 2
    /\ loadedSchedule.tasks[1].resource = "A"
    /\ loadedSchedule.tasks[2].resource = "A"
    /\ loadedSchedule.tasks[2].requiredSkill = "y"
    /\ lastEvent.data.violations = 2

(***************************************************************************)
(* Properties of the score analysis.                                       *)
(***************************************************************************)
ViolatesHard(constraint) == getScoreComponents(constraint.score).hard < 0

AbsHard(constraint) == Abs(getScoreComponents(constraint.score).hard)

AbsSoft(constraint) == Abs(getScoreComponents(constraint.score).soft)

\* the table shows exactly the constraints the server returned
SameConstraints(rows, constraints) ==
    /\ Len(rows) = Len(constraints)
    /\ {rows[i] : i \in 1..Len(rows)}
           = {constraints[i] : i \in 1..Len(constraints)}

TableShown ==
    /\ lastEvent.op = "analyzeOk"
    /\ scoreAnalysisContent.view = "table"

\* C26: the table shows the returned constraints with those of negative
\* hard component first; constraints on the same side of that split are in
\* descending order of absolute hard component and, where that is equal, in
\* descending order of absolute soft component.
C26_DisplayOrder ==
    TableShown =>
        LET rows == scoreAnalysisContent.rows
        IN  /\ SameConstraints(rows, lastEvent.data.constraints)
            /\ \A i, j \in 1..Len(rows) :
                   i < j =>
                       /\ ViolatesHard(rows[j]) => ViolatesHard(rows[i])
                       /\ ViolatesHard(rows[i]) = ViolatesHard(rows[j]) =>
                              /\ AbsHard(rows[i]) >= AbsHard(rows[j])
                              /\ AbsHard(rows[i]) = AbsHard(rows[j]) =>
                                     AbsSoft(rows[i]) >= AbsSoft(rows[j])

\* C26 as stated: negative hard component first, those in descending order
\* of absolute hard component, the remaining ones in descending order of
\* absolute soft component.
C26_RemainingBySoft ==
    TableShown =>
        LET rows == scoreAnalysisContent.rows
        IN  \A i, j \in 1..Len(rows) :
                i < j =>
                    /\ ViolatesHard(rows[j]) => ViolatesHard(rows[i])
                    /\ ViolatesHard(rows[i]) /\ ViolatesHard(rows[j]) =>
                           AbsHard(rows[i]) >= AbsHard(rows[j])
                    /\ ~ViolatesHard(rows[i]) /\ ~ViolatesHard(rows[j]) =>
                           AbsSoft(rows[i]) >= AbsSoft(rows[j])

\* Cap (-1hard), Bal (-20soft), Skill (-3hard) are shown as Skill, Cap, Bal
C26_Witness ==
    /\ TableShown
    /\ lastEvent.data.constraints
           = <<Constraint("Cap", <<<<-1, "hard">>>>),
               Constraint("Bal", <<<<-20, "soft">>>>),
               Constraint("Skill", <<<<-3, "hard">>>>)>>
    /\ scoreAnalysisContent.rows
           = <<Constraint("Skill", <<<<-3, "hard">>>>),
               Constraint("Cap", <<<<-1, "hard">>>>),
               Constraint("Bal", <<<<-20, "soft">>>>)>>

Position(constraints, constraint) ==
    CHOOSE i \in 1..Len(constraints) : constraints[i] = constraint

\* a is before b in the server's order and in the table
KeepOrder(a, b) ==
    Position(lastEvent.data.constraints, a)
        < Position(lastEvent.data.constraints, b)
    => Position(scoreAnalysisContent.rows, a)
           < Position(scoreAnalysisContent.rows, b)

\* C27: two constraints on the same side of the split with equal absolute
\* hard component and equal absolute soft component are shown in the order
\* the server returned them.
C27_StableOnAllKeys ==
    TableShown =>
        \A i, j \in 1..Len(scoreAnalysisContent.rows) :
            LET a == scoreAnalysisContent.rows[i]
                b == scoreAnalysisContent.rows[j]
            IN  /\ ViolatesHard(a) = ViolatesHard(b)
                /\ AbsHard(a) = AbsHard(b)
                /\ AbsSoft(a) = AbsSoft(b)
                => KeepOrder(a, b)

\* C27 as stated: two constraints of negative hard component with equal
\* absolute hard component, and two of the remaining ones with equal
\* absolute soft component, are shown in the order the server returned them.
C27_StableOnOneKey ==
    TableShown =>
        \A i, j \in 1..Len(scoreAnalysisContent.rows) :
            LET a == scoreAnalysisContent.rows[i]
                b == scoreAnalysisContent.rows[j]
            IN  \/ ViolatesHard(a) /\ ViolatesHard(b)
                   /\ AbsHard(a) = AbsHard(b)
                \/ ~ViolatesHard(a) /\ ~ViolatesHard(b)
                   /\ AbsSoft(a) = AbsSoft(b)
                => KeepOrder(a, b)

\* Min and Bal (both 0 hard, -20 soft) returned as Min, Skill, Bal are shown
\* as Skill, Min, Bal
C27_Witness ==
    /\ TableShown
    /\ Len(lastEvent.data.constraints) = 3
    /\ lastEvent.data.constraints[1].name = "Min"
    /\ lastEvent.data.constraints[2].name = "Skill"
    /\ lastEvent.data.constraints[3].name = "Bal"
    /\ Len(scoreAnalysisContent.rows) = 3
    /\ scoreAnalysisContent.rows[1].name = "Skill"
    /\ scoreAnalysisContent.rows[2].name = "Min"
    /\ scoreAnalysisContent.rows[3].name = "Bal"

\* C28: analyze() with no schedule loaded sends nothing and shows "No data
\* loaded."; the failure of an analyze request replaces whatever the modal
\* showed by "Failed to analyze score.", with no table left.
C28_AnalyzeFailureShown ==
    [][/\ lastEvent'.op \in {"analyze", "analyzeRejected"}
          /\ loadedSchedule = NoSchedule
          => /\ inflight' = inflight
             /\ scoreAnalysisContent'.view = "noData"
             /\ scoreAnalysisContent'.rows = << >>
       /\ lastEvent'.op = "analyzeFail"
          => /\ scoreAnalysisContent'.view = "failed"
             /\ scoreAnalysisContent'.rows = << >>]_vars

\* a failure arrives while the table of an earlier analysis is shown
C28_Witness ==
    /\ lastEvent.op = "analyzeFail"
    /\ lastEvent.pre = "table"
    /\ scoreAnalysisContent.view = "failed"

(***************************************************************************)
(* Frame properties of rendering and of the session identity.              *)
(***************************************************************************)
\* the handlers of Spec that end by rendering the Schedule Model
RenderOps == {"fetchOk", "addTask"}

\* C29: a render leaves scheduleId and demoDataId alone and shows the
\* Schedule Model its handler has set (the fetched schedule, or the model
\* with the new task appended); it sets the loop: running after the render
\* of a schedule that is solving (the running timer is kept), stopped after
\* the render of any other schedule.
C29_RenderSetsLoopOnly ==
    [][lastEvent'.op \in RenderOps =>
          /\ scheduleId' = scheduleId
          /\ demoDataId' = demoDataId
          /\ lastEvent'.op = "fetchOk" => loadedSchedule' = lastEvent'.data
          /\ lastEvent'.op = "addTask" =>
                 /\ Len(loadedSchedule'.tasks) = TaskCount + 1
                 /\ \A i \in 1..TaskCount :
                        loadedSchedule'.tasks[i] = loadedSchedule.tasks[i]
          /\ (autoRefreshIntervalId' # NullTimer) = isSolving(loadedSchedule')
          /\ isSolving(loadedSchedule') /\ autoRefreshIntervalId # NullTimer
                 => autoRefreshIntervalId' = autoRefreshIntervalId]_vars

\* C29 as stated: after a render scheduleId, demoDataId and the loop are
\* what they were before it.
C29_RenderLeavesLoop ==
    [][lastEvent'.op \in RenderOps =>
          /\ scheduleId' = scheduleId
          /\ demoDataId' = demoDataId
          /\ autoRefreshIntervalId' = autoRefreshIntervalId]_vars

\* the job's schedule, fetched after the job ended, has been rendered and
\* the loop is stopped
C29_Witness ==
    /\ lastEvent.op = "fetchOk"
    /\ lastEvent.req.kind = "job"
    /\ scheduleId # NullId
    /\ ~isSolving(loadedSchedule)
    /\ autoRefreshIntervalId = NullTimer

\* C30: scheduleId changes only when a solve succeeds (to the job id) and
\* when a dataset is selected (to null); demoDataId changes only when a
\* dataset is selected, by a click or as the first of the loaded list.
C30_SessionIdentityFrame ==
    [][/\ scheduleId' # scheduleId =>
              \/ lastEvent'.op = "solveOk" /\ scheduleId' = lastEvent'.data
              \/ lastEvent'.op = "select" /\ scheduleId' = NullId
       /\ demoDataId' # demoDataId => lastEvent'.op \in {"select", "listOk"}
      ]_vars

\* a job id is held while a weight is changed with a table of an earlier
\* dataset edited locally
C30_Witness ==
    /\ scheduleId # NullId
    /\ demoDataId # NullId
    /\ lastEvent.op = "setWeight"
    /\ scoreAnalysisContent.view = "empty"
    /\ Edited

(***************************************************************************)
(* Failures, form input and races.                                         *)
(***************************************************************************)
\* C31: when the dataset fetch of a selection has failed, the idle controls
\* are shown and no poll timer is active, also when the loop was running
\* before.
C31_FailedSelectShowsIdle ==
    (lastEvent.op = "fetchFail" /\ lastEvent.req.origin = "select") =>
        /\ ~uiSolving
        /\ autoRefreshIntervalId = NullTimer
        /\ timers = {}

\* the loop was running when the failure of the selection's fetch arrived
C31_Witness ==
    /\ lastEvent.op = "fetchFail"
    /\ lastEvent.req.origin = "select"
    /\ lastEvent.prevTimer # NullTimer
    /\ autoRefreshIntervalId = NullTimer
    /\ ~uiSolving

\* C32: every resource of the Schedule Model has a capacity of at least 0
\* and every task a duration of at least 1.
C32_CapacityAndDurationInRange ==
    loadedSchedule # NoSchedule =>
        /\ \A i \in 1..Len(loadedSchedule.resources) :
               loadedSchedule.resources[i].capacity >= 0
        /\ \A i \in 1..Len(loadedSchedule.tasks) :
               loadedSchedule.tasks[i].duration >= 1

\* C33: the latest write wins.  A successful response that arrives while
\* the Schedule Model holds a local edit replaces it by the fetched
\* schedule, and a Schedule Model that holds a local edit is changed by
\* nothing but a successful response or another local edit.
C33_LatestWriteWins ==
    /\ [](lastEvent.op = "fetchOk" /\ lastEvent.prevEdited =>
              loadedSchedule = lastEvent.data /\ ~Edited)
    /\ [][Edited /\ loadedSchedule' # loadedSchedule =>
              lastEvent'.op \in EditOps \cup {"fetchOk"}]_vars

\* the response to a tick has discarded a task added while the fetch was
\* outstanding
C33_Witness ==
    /\ lastEvent.op = "fetchOk"
    /\ lastEvent.req.origin = "tick"
    /\ lastEvent.prevEdited
    /\ loadedSchedule = lastEvent.data

\* C34: stopping the loop prevents future ticks only.  The response to a
\* tick's fetch that arrives when the loop has been stopped still replaces
\* the Schedule Model, and a tick fires only while the timer is set: no
\* timer is left once the loop is stopped.
C34_StopPreventsFutureTicksOnly ==
    /\ [](/\ (/\ lastEvent.op = "fetchOk"
              /\ lastEvent.req.origin = "tick"
              /\ lastEvent.prevTimer = NullTimer) =>
                 loadedSchedule = lastEvent.data
          /\ autoRefreshIntervalId = NullTimer => timers = {})
    /\ [][lastEvent'.op = "tick" =>
              /\ autoRefreshIntervalId # NullTimer
              /\ autoRefreshIntervalId \in timers]_vars

\* the fetch of a tick was answered after a stop had cleared the timer
C34_Witness ==
    /\ lastEvent.op = "fetchOk"
    /\ lastEvent.req.origin = "tick"
    /\ lastEvent.req.kind = "job"
    /\ lastEvent.prevTimer = NullTimer
    /\ loadedSchedule = lastEvent.data

\* C35: a tick issues its fetch whatever is outstanding, and every
\* successful response is applied when it arrives: the Schedule Model is
\* the schedule of the response that arrived last.
C35_NoOverlapGuard ==
    /\ [](lastEvent.op = "fetchOk" /\ lastEvent.req.origin = "tick" =>
              loadedSchedule = lastEvent.data)
    /\ [][lastEvent'.op = "tick" =>
              inflight' = Issue(inflight, refreshSchedule(scheduleId,
                                                          demoDataId, "tick"))
      ]_vars

\* two fetches of ticks were outstanding together; one has been answered
\* and applied while the other is still outstanding
C35_Witness ==
    /\ lastEvent.op = "fetchOk"
    /\ lastEvent.req.origin = "tick"
    /\ loadedSchedule = lastEvent.data
    /\ \E r \in BagToSet(inflight) : r.origin = "tick"

\* C36: a successful response that arrives while the loop is running and
\* whose schedule is not solving (solverStatus NOT_SOLVING or absent) clears
\* the timer and shows the idle controls, and leaves scheduleId as it was.
C36_TerminalFetchEndsSolving ==
    [][(/\ lastEvent'.op = "fetchOk"
        /\ autoRefreshIntervalId # NullTimer
        /\ ~isSolving(lastEvent'.data)) =>
           /\ autoRefreshIntervalId' = NullTimer
           /\ timers' = {}
           /\ ~uiSolving'
           /\ scheduleId' = scheduleId]_vars

\* the job's schedule arrived with NOT_SOLVING while the loop was running
C36_Witness ==
    /\ lastEvent.op = "fetchOk"
    /\ lastEvent.req.kind = "job"
    /\ lastEvent.prevTimer # NullTimer
    /\ lastEvent.data.solverStatus = "NOT_SOLVING"
    /\ scheduleId = lastEvent.req.target
    /\ autoRefreshIntervalId = NullTimer
    /\ ~uiSolving

\* C37: a Solving session left alone, whose job ends on the server and
\* whose fetches are all answered, reaches and keeps a state in which the
\* loop is stopped and the Schedule Model is the server's schedule of the
\* ended job.
C37_EventuallyConsistent ==
    <>[](/\ autoRefreshIntervalId = NullTimer
         /\ timers = {}
         /\ loadedSchedule = JobSchedule("NOT_SOLVING"))

\* the loop is stopped, nothing is outstanding and the Schedule Model is the
\* schedule of the ended job
C37_Witness ==
    /\ serverStatus = "NOT_SOLVING"
    /\ scheduleId = "job-1"
    /\ autoRefreshIntervalId = NullTimer
    /\ inflight = EmptyBag
    /\ loadedSchedule = JobSchedule("NOT_SOLVING")

\* C38, for the handler that runs right after a successful stop: when a
\* stop has stopped the loop, neither a response to a fetch nor the render
\* after a local edit starts the timer.
C38_StoppedLoopStaysStopped ==
    [][(/\ lastEvent.op = "stopOk"
        /\ autoRefreshIntervalId = NullTimer
        /\ lastEvent'.op \in {"fetchOk", "addTask"}) =>
           autoRefreshIntervalId' = NullTimer]_vars

\* C39: when the dataset fetch of a selection has succeeded, the response
\* to the fetch of a job, issued before the selection, does not replace
\* the Schedule Model.
C39_StaleResponseIgnored ==
    [][(/\ lastEvent.op = "fetchOk"
        /\ lastEvent.req.origin = "select"
        /\ scheduleId = NullId
        /\ lastEvent'.op = "fetchOk"
        /\ lastEvent'.req.kind = "job") =>
           loadedSchedule' = loadedSchedule]_vars

\* C40: initializeApp runs exactly once.  It has run as soon as one of the
\* window load event and the 100 ms timer has fired; the one that fires
\* first runs it (GET /demo-data is issued), the other changes nothing, and
\* GET /demo-data is issued by no other step.
C40_InitializedOnce ==
    /\ [](initialized = (pendingInit # {"load", "timeout"}))
    /\ [][/\ initialized => initialized'
          /\ pendingInit' # pendingInit =>
                 IF initialized
                 THEN UNCHANGED <<inflight, autoRefreshIntervalId, timers,
                                  uiSolving, demoDataId, scheduleId,
                                  loadedSchedule, dropdown, weights,
                                  scoreAnalysisContent>>
                 ELSE inflight' = Send(inflight,
                                       Request("list", NullId, "init"))
          /\ (\E r \in BagToSet(inflight') :
                 /\ r.kind = "list"
                 /\ CopiesIn(r, inflight') > CopiesIn(r, inflight)) =>
                 ~initialized /\ initialized'
         ]_vars

\* both events have fired and GET /demo-data was issued once
C40_Witness ==
    /\ pendingInit = {}
    /\ initialized
    /\ lastEvent.op = "init"
    /\ inflight = SetToBag({Request("list", NullId, "init")})
====
